---- MODULE Spec2Model ----
(***************************************************************************)
(* APNG.Parser (apng-parser 0.8.1): the demuxer that splits an animated    *)
(* PNG into standalone single-frame PNG byte sequences, and the decoder    *)
(* callbacks that complete the parse.                                      *)
(*                                                                         *)
(* A buffer is a sequence of bytes; the byte at DataView offset p is       *)
(* buf[p + 1].  A chunk name is the tuple of its four character codes      *)
(* (String.fromCharCode is one-to-one on bytes).  Typed arrays other than  *)
(* Uint8Array are laid out in the byte order of the platform, which is     *)
(* little-endian on every platform the script runs on.  Delays are exact   *)
(* rationals <<numerator, denominator>> in milliseconds.                   *)
(*                                                                         *)
(* APNG.Helper (apng-helper.js): the player that composes the frames onto  *)
(* a canvas.  No helper exists while the parser is studied (Spec), and the *)
(* parser is at rest while the helper is studied (PlayerSpec).             *)
(***************************************************************************)
EXTENDS Integers, Sequences, FiniteSets, TLC

VARIABLES
    buffer,         \* the ArrayBuffer handed to parseBuffer (the views write into it)
    source,         \* the bytes of the input as handed in (never written)
    hasOnerror,     \* whether the optional onerror callback was given
    pc,             \* "new" | "parsed" | "thrown"
    thrown,         \* the exception parseBuffer raised, "" if none
    me,             \* the APNG.Parser instance: width, height, iterations, duration, frames, frameInfo, isAPNG
    frames,         \* parseBuffer's local `frames` (acTL num_frames), captured by the handlers
    img,            \* per Image of me.frames: "loading" | "loaded" | "error"
    warned,         \* the console warning was logged
    callbackCalls,  \* number of invocations of callback
    onerrorCalls,   \* number of invocations of onerror
    apng,           \* the APNG.Parser object handed to APNG.Helper
    helper,         \* the APNG.Helper instance: its fields, closure variables, canvases, timers
    call            \* the last call made on the helper, or the last timer callback run

parserVars == <<buffer, source, hasOnerror, pc, thrown, me, frames, img, warned,
                callbackCalls, onerrorCalls>>

playerVars == <<apng, helper, call>>

vars == <<parserVars, playerVars>>

(***************************************************************************)
(* Bounds of the model.                                                    *)
(***************************************************************************)
MaxChunks == 3

(***************************************************************************)
(* Byte order helpers (DataView is big-endian by default).                 *)
(***************************************************************************)
BE32(v) == << (v \div 16777216) % 256, (v \div 65536) % 256, (v \div 256) % 256, v % 256 >>

BE16(v) == << (v \div 256) % 256, v % 256 >>

\* A 32-bit word that may exceed the checker's integers is kept as its four bytes,
\* most significant first; a Uint32Array stores each word least significant byte first.
RECURSIVE Uint32Array(_)
Uint32Array(words) ==
    IF words = <<>> THEN <<>>
    ELSE LET w == Head(words) IN <<w[4], w[3], w[2], w[1]>> \o Uint32Array(Tail(words))

InRange(buf, p, n) == p >= 0 /\ p + n <= Len(buf)

GetUint8(buf, p) == buf[p + 1]

GetUint16(buf, p) == buf[p + 1] * 256 + buf[p + 2]

GetUint32(buf, p) == buf[p + 1] * 16777216 + buf[p + 2] * 65536 + buf[p + 3] * 256 + buf[p + 4]

Slice(buf, p, n) == [i \in 1..n |-> buf[p + i]]

SetBytes(buf, p, bytes) ==
    [i \in 1..Len(buf) |-> IF i > p /\ i <= p + Len(bytes) THEN bytes[i - p] ELSE buf[i]]

RECURSIVE Concat(_)
Concat(list) == IF list = <<>> THEN <<>> ELSE Head(list) \o Concat(Tail(list))

(***************************************************************************)
(* Chunk names.                                                            *)
(***************************************************************************)
IHDR == <<73, 72, 68, 82>>
PLTE == <<80, 76, 84, 69>>
gAMA == <<103, 65, 77, 65>>
pHYs == <<112, 72, 89, 115>>
tRNS == <<116, 82, 78, 83>>
iCCP == <<105, 67, 67, 80>>
sRGB == <<115, 82, 71, 66>>
sBIT == <<115, 66, 73, 84>>
sPLT == <<115, 80, 76, 84>>
acTL == <<97, 99, 84, 76>>
fcTL == <<102, 99, 84, 76>>
fdAT == <<102, 100, 65, 84>>
IDAT == <<73, 68, 65, 84>>
IEND == <<73, 69, 78, 68>>
tEXt == <<116, 69, 88, 116>>

\* variant: tRNS missing from the list, tEXt in it
headerChunksOther == {IHDR, PLTE, gAMA, pHYs, tEXt, iCCP, sRGB, sBIT, sPLT}

headerChunks == {IHDR, PLTE, gAMA, pHYs, tRNS, iCCP, sRGB, sBIT, sPLT}

(***************************************************************************)
(* CRC32 (buildCRC, calcCRC).  A 32-bit register is kept as its four bytes,*)
(* most significant first, since it does not fit the checker's integers.   *)
(***************************************************************************)
RECURSIVE XorBits(_, _, _)
XorBits(a, b, n) ==
    IF n = 0 THEN 0
    ELSE ((a + b) % 2) + 2 * XorBits(a \div 2, b \div 2, n - 1)

\* (f @@ <<>> is f, stored as an explicit table)
Xor8 == [a \in 0..255 |-> ([b \in 0..255 |-> XorBits(a, b, 8)] @@ <<>>)] @@ <<>>

Xor32(a, b) == << Xor8[a[1]][b[1]], Xor8[a[2]][b[2]], Xor8[a[3]][b[3]], Xor8[a[4]][b[4]] >>

\* crc >>> 1
Shr1(c) == << c[1] \div 2,
              (c[1] % 2) * 128 + c[2] \div 2,
              (c[2] % 2) * 128 + c[3] \div 2,
              (c[3] % 2) * 128 + c[4] \div 2 >>

\* crc >>> 8
Shr8(c) == << 0, c[1], c[2], c[3] >>

Polynomial == <<237, 184, 131, 32>>     \* 0xedb88320

AllOnes == <<255, 255, 255, 255>>       \* -1 >>> 0

RECURSIVE CrcBits(_, _)
CrcBits(crc, j) ==
    IF j = 0 THEN crc
    ELSE CrcBits(IF crc[4] % 2 = 1 THEN Xor32(Polynomial, Shr1(crc)) ELSE Shr1(crc), j - 1)

buildCRC == [i \in 0..255 |-> CrcBits(<<0, 0, 0, i>>, 8)] @@ <<>>

\* while( i < len ) crc = (crc >>> 8) ^ table[ (crc ^ buffer[ i++ ]) & 0xff ];
\* the iterations i .. len-1 are split in halves, the first half evaluated (the
\* test on half) before the second is entered, which keeps the evaluation shallow
RECURSIVE CrcLoop(_, _, _, _)
CrcLoop(buf, i, len, crc) ==
    IF i >= len THEN crc
    ELSE IF i + 1 = len
    THEN Xor32(Shr8(crc), buildCRC[Xor8[crc[4]][GetUint8(buf, i)]])
    ELSE LET mid  == (i + len) \div 2
             half == CrcLoop(buf, i, mid, crc)
         IN  IF Len(half) = 4 THEN CrcLoop(buf, mid, len, half) ELSE half

\* variant: the CRC also covers the length field (i = 0)
calcCRCWithLength(buf) == Xor32(CrcLoop(buf, 0, Len(buf) - 4, AllOnes), AllOnes)

\* calcCRC(buffer): over bytes 4 .. length-5 of the chunk under construction
calcCRC(buf) == Xor32(CrcLoop(buf, 4, Len(buf) - 4, AllOnes), AllOnes)

\* makeChunk(name, data): length, FourCC, data, CRC32 (all big-endian)
makeChunk(name, data) ==
    LET body == BE32(Len(data)) \o name \o data
    IN  body \o calcCRC(body \o <<0, 0, 0, 0>>)

(***************************************************************************)
(* Exact rationals for the delays (JavaScript numbers).                    *)
(***************************************************************************)
RECURSIVE Gcd(_, _)
Gcd(a, b) == IF b = 0 THEN a ELSE Gcd(b, a % b)

Abs(a) == IF a < 0 THEN -a ELSE a

Rat(n, d) == LET g == Gcd(Abs(n), d) IN << n \div g, d \div g >>

RatAdd(a, b) == Rat(a[1] * b[2] + b[1] * a[2], a[2] * b[2])

RatInt(n) == << n, 1 >>

RatLeq(a, b) == a[1] * b[2] <= b[1] * a[2]

RECURSIVE SumDelays(_)
SumDelays(infos) ==
    IF infos = <<>> THEN RatInt(0) ELSE RatAdd(Head(infos).delay, SumDelays(Tail(infos)))

(***************************************************************************)
(* The PNG CRC32 as the PNG specification defines it, bit by bit: the      *)
(* reference the chunks of the input files and the claims are held to.     *)
(***************************************************************************)
RECURSIVE PngCrcBits(_, _)
PngCrcBits(c, k) ==
    IF k = 0 THEN c
    ELSE PngCrcBits(IF c[4] % 2 = 1 THEN Xor32(<<237, 184, 131, 32>>, Shr1(c)) ELSE Shr1(c),
                    k - 1)

\* make_crc_table
PngCrcTable == [n \in 0..255 |-> PngCrcBits(<<0, 0, 0, n>>, 8)] @@ <<>>

\* update_crc over bytes[lo..hi]; the range is split in halves, and the first
\* half is evaluated (the test on left) before the second is entered, which
\* keeps the evaluation shallow
RECURSIVE PngCrcUpdate(_, _, _, _)
PngCrcUpdate(c, bytes, lo, hi) ==
    IF lo > hi THEN c
    ELSE IF lo = hi THEN Xor32(PngCrcTable[Xor8[c[4]][bytes[lo]]], Shr8(c))
    ELSE LET mid  == (lo + hi) \div 2
             left == PngCrcUpdate(c, bytes, lo, mid)
         IN  IF Len(left) = 4 THEN PngCrcUpdate(left, bytes, mid + 1, hi) ELSE left

PngCrc32(bytes) ==
    Xor32(PngCrcUpdate(<<255, 255, 255, 255>>, bytes, 1, Len(bytes)), <<255, 255, 255, 255>>)

(***************************************************************************)
(* The input files the model feeds to the parser.                          *)
(***************************************************************************)
PNGSignature == <<137, 80, 78, 71, 13, 10, 26, 10>>

\* a source chunk with a correct CRC field
Chunk(name, data) == BE32(Len(data)) \o name \o data \o PngCrc32(name \o data)

\* a source chunk whose CRC field does not match its content
BadCrcChunk(name, data) == BE32(Len(data)) \o name \o data \o <<0, 0, 0, 0>>

IhdrData(w, h) == BE32(w) \o BE32(h) \o <<8, 6, 0, 0, 0>>

FctlData(seq, w, h, x, y, num, den, dispose, blend) ==
    BE32(seq) \o BE32(w) \o BE32(h) \o BE32(x) \o BE32(y) \o BE16(num) \o BE16(den)
        \o <<dispose, blend>>

\* the canvas of every input is 5 x 4
cIHDR == Chunk(IHDR, IhdrData(5, 4))
cIHDR2 == Chunk(IHDR, IhdrData(7, 6))
cPLTE == Chunk(PLTE, <<1, 2, 3>>)
cGAMA == BadCrcChunk(gAMA, <<0, 0, 177, 143>>)
cTEXT == Chunk(tEXt, <<65, 0, 66>>)
cACTL1 == Chunk(acTL, BE32(1) \o BE32(0))
cACTL2 == Chunk(acTL, BE32(2) \o BE32(3))
cIEND == Chunk(IEND, <<>>)
\* in the canvas, 25/1000 s
cFCTLa == Chunk(fcTL, FctlData(0, 3, 2, 1, 0, 25, 1000, 0, 1))
\* the whole canvas, denominator 0
cFCTLb == Chunk(fcTL, FctlData(1, 5, 4, 0, 0, 3, 0, 2, 0))
\* reaches beyond the canvas, 1/3 s, a sequence number that steps back
cFCTLc == Chunk(fcTL, FctlData(0, 4, 4, 2, 1, 1, 3, 1, 1))
cIDAT == Chunk(IDAT, <<170>>)
cFDAT == Chunk(fdAT, BE32(2) \o <<187, 204>>)

Preludes ==
    { <<cIHDR>>,
      <<cIHDR, cACTL1>>,
      <<cIHDR, cACTL2>>,
      <<cIHDR, cGAMA, cPLTE, cTEXT, cACTL2>>,
      <<cIHDR, cIHDR2, cACTL2>>,
      <<cTEXT, cIHDR, cACTL2>>,
      <<cTEXT, cIHDR>> }

StreamChunks == {cFCTLa, cFCTLb, cFCTLc, cIDAT, cFDAT}

Streams == UNION { [1..n -> StreamChunks] : n \in 0..MaxChunks }

BadSignatures == { <<137, 80, 78, 71, 13, 10, 26, 13>>, <<255, 216, 255, 224, 0, 16, 74, 70>> }

Inputs ==
    { PNGSignature \o Concat(p) \o Concat(b) \o cIEND : p \in Preludes, b \in Streams }
    \cup { s \o cIHDR \o cACTL1 \o cFCTLa \o cIDAT \o cIEND : s \in BadSignatures }

(***************************************************************************)
(* parseBuffer: signature, size, chunk scan.                               *)
(***************************************************************************)
\* the while loop over the buffer: [chunks, isAPNG, thrown]
RECURSIVE ScanChunks(_, _, _, _)
ScanChunks(buf, pos, chunks, isAPNG) ==
    IF pos < Len(buf)
    THEN IF ~InRange(buf, pos, 8)
         THEN [chunks |-> chunks, isAPNG |-> isAPNG, thrown |-> "RangeError"]
         ELSE LET chunk == [size |-> GetUint32(buf, pos),
                            name |-> Slice(buf, pos + 4, 4),
                            pos  |-> pos + 8]
              IN  ScanChunks(buf, chunk.pos + chunk.size + 4, Append(chunks, chunk),
                             isAPNG \/ chunk.name = acTL)
    ELSE [chunks |-> chunks, isAPNG |-> isAPNG, thrown |-> ""]

(***************************************************************************)
(* parseBuffer: the chunks.forEach of the APNG branch.                     *)
(***************************************************************************)
Locals0 ==
    [ parts |-> <<>>, partsSet |-> FALSE, fcCount |-> 0, seqLast |-> 0,
      errOutOfOrder |-> FALSE, fctlBeforeIDAT |-> FALSE, duration |-> RatInt(0),
      files |-> <<>>, header |-> <<>>, frames |-> 0, iterations |-> 0,
      frameInfo |-> <<>>, thrown |-> "" ]

\* variant: the zero test reads the field at pos - 6 (delay_num)
FrameDelayTestsNum(buf, cpos) ==
    LET num == GetUint16(buf, cpos + 20)
        den == GetUint16(buf, cpos + 22)
        pos == cpos + 26
    IN  IF GetUint16(buf, pos - 6) = 0
        THEN RatInt(10)
        ELSE Rat(num * 1000, IF den = 0 THEN 1 ELSE den)

\* delay: getU16() / (getU16() || 1) * 1000, then 10 if the field at pos - 4 is 0
FrameDelay(buf, cpos) ==
    LET num == GetUint16(buf, cpos + 20)
        den == GetUint16(buf, cpos + 22)
        pos == cpos + 26
    IN  IF GetUint16(buf, pos - 4) = 0
        THEN RatInt(10)
        ELSE Rat(num * 1000, IF den = 0 THEN 1 ELSE den)

\* variant: x and y read in the wrong order
FrameInfoOfYX(buf, cpos) ==
    [ width   |-> GetUint32(buf, cpos + 4),
      height  |-> GetUint32(buf, cpos + 8),
      x       |-> GetUint32(buf, cpos + 16),
      y       |-> GetUint32(buf, cpos + 12),
      delay   |-> FrameDelay(buf, cpos),
      dispose |-> GetUint8(buf, cpos + 24),
      blend   |-> GetUint8(buf, cpos + 25) ]

FrameInfoOf(buf, cpos) ==
    [ width   |-> GetUint32(buf, cpos + 4),
      height  |-> GetUint32(buf, cpos + 8),
      x       |-> GetUint32(buf, cpos + 12),
      y       |-> GetUint32(buf, cpos + 16),
      delay   |-> FrameDelay(buf, cpos),
      dispose |-> GetUint8(buf, cpos + 24),
      blend   |-> GetUint8(buf, cpos + 25) ]

\* seqNo >= seqLast ? seqLast = seqNo : errOutOfOrder = true
SeqCheck(st, seqNo) ==
    IF seqNo >= st.seqLast
    THEN [st EXCEPT !.seqLast = seqNo]
    ELSE [st EXCEPT !.errOutOfOrder = TRUE]

OnHeaderChunk(st, chunk) == [st EXCEPT !.header = Append(@, chunk)]

OnAcTL(st, buf, chunk) ==
    IF ~InRange(buf, chunk.pos, 8)
    THEN [st EXCEPT !.thrown = "RangeError"]
    ELSE [st EXCEPT !.frames = GetUint32(buf, chunk.pos),
                    !.iterations = GetUint32(buf, chunk.pos + 4)]

\* variant: if ( parts && parts.length ) files.push(parts)
PushPartsNonEmpty(st) ==
    IF st.partsSet /\ st.parts # <<>> THEN [st EXCEPT !.files = Append(@, st.parts)] ELSE st

\* if ( parts ) files.push(parts): an empty array is truthy, only null is not
PushParts(st) ==
    IF st.partsSet THEN [st EXCEPT !.files = Append(@, st.parts)] ELSE st

\* variant: duration = delay instead of duration += delay
OnFcTLLastDelay(st, buf, chunk) ==
    LET s1 == [PushParts(st) EXCEPT !.fcCount = @ + 1, !.parts = <<>>,
                                    !.partsSet = TRUE, !.fctlBeforeIDAT = TRUE]
    IN  IF ~InRange(buf, chunk.pos, 26)
        THEN [s1 EXCEPT !.thrown = "RangeError"]
        ELSE LET s2   == SeqCheck(s1, GetUint32(buf, chunk.pos))
                 info == FrameInfoOf(buf, chunk.pos)
             IN  [s2 EXCEPT !.frameInfo = Append(@, info),
                            !.duration = info.delay]

OnFcTL(st, buf, chunk) ==
    LET s1 == [PushParts(st) EXCEPT !.fcCount = @ + 1, !.parts = <<>>,
                                    !.partsSet = TRUE, !.fctlBeforeIDAT = TRUE]
    IN  IF ~InRange(buf, chunk.pos, 26)
        THEN [s1 EXCEPT !.thrown = "RangeError"]
        ELSE LET s2   == SeqCheck(s1, GetUint32(buf, chunk.pos))
                 info == FrameInfoOf(buf, chunk.pos)
             IN  [s2 EXCEPT !.frameInfo = Append(@, info),
                            !.duration = RatAdd(@, info.delay)]

OnIDAT(st, buf, chunk) ==
    IF st.fctlBeforeIDAT
    THEN IF ~InRange(buf, chunk.pos, chunk.size)
         THEN [st EXCEPT !.thrown = "RangeError"]
         ELSE [st EXCEPT !.parts = Append(@, [pos |-> chunk.pos, size |-> chunk.size])]
    ELSE st

\* variant: the sequence number of fdAT is kept in the part
OnFdATWithSeq(st, buf, chunk) ==
    IF ~InRange(buf, chunk.pos, 4)
    THEN [st EXCEPT !.thrown = "RangeError"]
    ELSE LET s1 == SeqCheck(st, GetUint32(buf, chunk.pos))
         IN  IF ~s1.partsSet
             THEN [s1 EXCEPT !.thrown = "TypeError"]
             ELSE IF chunk.size < 4 \/ ~InRange(buf, chunk.pos + 4, chunk.size - 4)
             THEN [s1 EXCEPT !.thrown = "RangeError"]
             ELSE [s1 EXCEPT !.parts = Append(@, [pos  |-> chunk.pos,
                                                  size |-> chunk.size])]

OnFdAT(st, buf, chunk) ==
    IF ~InRange(buf, chunk.pos, 4)
    THEN [st EXCEPT !.thrown = "RangeError"]
    ELSE LET s1 == SeqCheck(st, GetUint32(buf, chunk.pos))
         IN  IF ~s1.partsSet
             THEN [s1 EXCEPT !.thrown = "TypeError"]           \* null.push
             ELSE IF chunk.size < 4 \/ ~InRange(buf, chunk.pos + 4, chunk.size - 4)
             THEN [s1 EXCEPT !.thrown = "RangeError"]
             ELSE [s1 EXCEPT !.parts = Append(@, [pos  |-> chunk.pos + 4,
                                                  size |-> chunk.size - 4])]

OnChunk(st, buf, chunk) ==
    IF chunk.name \in headerChunks THEN OnHeaderChunk(st, chunk)
    ELSE IF chunk.name = acTL THEN OnAcTL(st, buf, chunk)
    ELSE IF chunk.name = fcTL THEN OnFcTL(st, buf, chunk)
    ELSE IF chunk.name = IDAT THEN OnIDAT(st, buf, chunk)
    ELSE IF chunk.name = fdAT THEN OnFdAT(st, buf, chunk)
    ELSE st

RECURSIVE ForEachChunk(_, _, _, _)
ForEachChunk(st, buf, chunks, i) ==
    IF i > Len(chunks) \/ st.thrown # "" THEN st
    ELSE ForEachChunk(OnChunk(st, buf, chunks[i]), buf, chunks, i + 1)

(***************************************************************************)
(* parseBuffer: files.forEach, one standalone PNG per entry of files.      *)
(***************************************************************************)
\* variant: the IHDR keeps the size of the canvas
PatchIHDRKeepsCanvas(buf, chunk, info) == buf

\* header.forEach, the IHDR branch: the region size is written into the source
\* buffer through the DataView, then the chunk is rebuilt from the buffer
PatchIHDR(buf, chunk, info) ==
    SetBytes(SetBytes(buf, chunk.pos, BE32(info.width)), chunk.pos + 4, BE32(info.height))

\* header.forEach: [buf, list, thrown]; list holds byte sequences (made chunks)
\* and views [pos, size] into the buffer that the Blob reads when it is built
RECURSIVE ForEachHeader(_, _, _, _)
ForEachHeader(acc, header, info, i) ==
    IF i > Len(header) \/ acc.thrown # "" THEN acc
    ELSE LET chunk == header[i]
         IN  IF chunk.name = IHDR
             THEN IF ~InRange(acc.buf, chunk.pos, chunk.size) \/ chunk.size < 4
                  THEN [acc EXCEPT !.thrown = "RangeError"]
                  ELSE IF chunk.size < 8                     \* the second setUint32 throws
                  THEN [acc EXCEPT !.buf = SetBytes(@, chunk.pos, BE32(info.width)),
                                   !.thrown = "RangeError"]
                  ELSE LET b2 == PatchIHDR(acc.buf, chunk, info)
                           ihdr == makeChunk(IHDR, Slice(b2, chunk.pos, chunk.size))
                       IN  ForEachHeader([acc EXCEPT !.buf = b2,
                                                     !.list = Append(@, [bytes |-> ihdr])],
                                         header, info, i + 1)
             ELSE IF ~InRange(acc.buf, chunk.pos - 8, chunk.size + 12)
                  THEN [acc EXCEPT !.thrown = "RangeError"]
                  ELSE ForEachHeader(
                           [acc EXCEPT !.list = Append(@, [pos  |-> chunk.pos - 8,
                                                           size |-> chunk.size + 12])],
                           header, info, i + 1)

\* file.forEach: list.push(makeChunk('IDAT', part))
IdatChunks(buf, file) ==
    [k \in 1..Len(file) |-> [bytes |-> makeChunk(IDAT, Slice(buf, file[k].pos, file[k].size))]]

\* new Blob(list): the parts are copied in order, the views from the buffer as it is now
BlobPart(buf, part) ==
    IF "bytes" \in DOMAIN part THEN part.bytes ELSE Slice(buf, part.pos, part.size)

Blob(buf, list) == Concat([k \in 1..Len(list) |-> BlobPart(buf, list[k])])

SignatureWords == << <<71, 78, 80, 137>>, <<10, 26, 10, 13>> >>    \* 0x474E5089, 0xA1A0A0D

IendWords == << <<0, 0, 0, 0>>, <<68, 78, 69, 73>>, <<130, 96, 66, 174>> >>  \* 0, 0x444e4549, 0x826042ae

\* variant: the final IEND chunk is not pushed
FrameListNoIend(h, file) == h.list \o IdatChunks(h.buf, file)

\* the list handed to the Blob: signature and header chunks, the IDAT chunks of
\* the frame, then list.push(new Uint32Array([0, 0x444e4549, 0x826042ae]))
FrameList(h, file) ==
    h.list \o IdatChunks(h.buf, file) \o << [bytes |-> Uint32Array(IendWords)] >>

\* the rest of an iteration once header.forEach is done (h is its result)
FrameBlob(h, file) ==
    IF h.thrown # ""
    THEN [buf |-> h.buf, blob |-> <<>>, thrown |-> h.thrown]
    ELSE [buf |-> h.buf, blob |-> Blob(h.buf, FrameList(h, file)), thrown |-> ""]

\* one iteration of files.forEach: [buf, blob, thrown]
BuildFrame(buf, chunks, header, file, info) ==
    IF chunks[1].name # IHDR
    THEN [buf |-> buf, blob |-> <<>>, thrown |-> "Error in PNG. IHDR not in correct position."]
    ELSE FrameBlob(ForEachHeader([buf |-> buf,
                                  list |-> << [bytes |-> Uint32Array(SignatureWords)] >>,
                                  thrown |-> ""], header, info, 1),
                   file)

\* me.frames.push(img) unless the iteration threw (f is the result of BuildFrame)
PushFrame(acc, f) ==
    [ buf    |-> f.buf,
      frames |-> IF f.thrown = "" THEN Append(acc.frames, f.blob) ELSE acc.frames,
      thrown |-> f.thrown ]

\* files.forEach: [buf, frames, thrown]
RECURSIVE ForEachFile(_, _, _, _, _, _)
ForEachFile(acc, chunks, header, files, frameInfo, index) ==
    IF index > Len(files) \/ acc.thrown # "" THEN acc
    ELSE ForEachFile(PushFrame(acc, BuildFrame(acc.buf, chunks, header, files[index],
                                               frameInfo[index])),
                     chunks, header, files, frameInfo, index + 1)

(***************************************************************************)
(* parseBuffer as a whole, and the constructor that calls it.              *)
(***************************************************************************)
SignatureThrown(buf) ==
    IF ~InRange(buf, 0, 4) THEN "RangeError"
    ELSE IF Slice(buf, 0, 4) # <<137, 80, 78, 71>> THEN "Not a (A)PNG file."
    ELSE IF ~InRange(buf, 4, 4) THEN "RangeError"
    ELSE IF Slice(buf, 4, 4) # <<13, 10, 26, 10>> THEN "Not a (A)PNG file."
    ELSE ""

Me0 ==
    [ width |-> 0, height |-> 0, iterations |-> 0, duration |-> RatInt(0),
      frames |-> <<>>, frameInfo |-> <<>>, isAPNG |-> FALSE ]

Loading(n) == [k \in 1..n |-> "loading"]

\* parseBuffer left by a throw: no image is created
Fail(m, buf, t) ==
    [me |-> m, buffer |-> buf, frames |-> 0, img |-> <<>>, warned |-> FALSE, thrown |-> t]

\* the APNG branch after files.forEach (st: the locals after chunks.forEach,
\* out: the result of files.forEach)
FilesDone(m, st, out) ==
    [ me     |-> [m EXCEPT !.duration = st.duration, !.frames = out.frames],
      buffer |-> out.buf,
      frames |-> st.frames,
      img    |-> Loading(Len(out.frames)),
      warned |-> (st.fcCount # st.frames \/ st.errOutOfOrder),
      thrown |-> out.thrown ]

\* the APNG branch after chunks.forEach (st: the locals it leaves)
ChunksDone(m, buf, chunks, st) ==
    IF st.thrown # ""
    THEN [Fail([m EXCEPT !.iterations = st.iterations, !.frameInfo = st.frameInfo],
               buf, st.thrown) EXCEPT !.frames = st.frames]
    ELSE FilesDone([m EXCEPT !.iterations = st.iterations, !.frameInfo = st.frameInfo],
                   st,
                   ForEachFile([buf |-> buf, frames |-> <<>>, thrown |-> ""],
                               chunks, st.header, PushParts(st).files, st.frameInfo, 1))

\* parseBuffer after the chunk scan (sc: the result of the scan)
ScanDone(m, buf, sc) ==
    IF sc.thrown # "" THEN Fail([m EXCEPT !.isAPNG = sc.isAPNG], buf, sc.thrown)
    ELSE IF sc.isAPNG
    THEN ChunksDone([m EXCEPT !.isAPNG = TRUE], buf, sc.chunks,
                    ForEachChunk(Locals0, buf, sc.chunks, 1))
    ELSE [ me     |-> [m EXCEPT !.frames = << buf >>],      \* new Blob([ buffer ])
           buffer |-> buf,
           frames |-> 0,
           img    |-> Loading(1),
           warned |-> FALSE,
           thrown |-> "" ]

\* the result of parseBuffer(buf) on a fresh instance:
\* [me, buffer, frames, img, warned, thrown]
ParseResult(buf) ==
    IF SignatureThrown(buf) # "" THEN Fail(Me0, buf, SignatureThrown(buf))
    ELSE IF ~InRange(buf, 16, 4) THEN Fail(Me0, buf, "RangeError")
    ELSE IF ~InRange(buf, 20, 4)
    THEN Fail([Me0 EXCEPT !.width = GetUint32(buf, 16)], buf, "RangeError")
    ELSE ScanDone([Me0 EXCEPT !.width = GetUint32(buf, 16), !.height = GetUint32(buf, 20)],
                  buf, ScanChunks(buf, 8, <<>>, FALSE))

\* the Image decoder loads a byte sequence only if its first chunk is IHDR
DecoderAccepts(png) == InRange(png, 8, 8) /\ Slice(png, 12, 4) = IHDR

Init ==
    /\ buffer \in Inputs
    /\ source = buffer
    /\ hasOnerror \in BOOLEAN
    /\ pc = "new"
    /\ thrown = ""
    /\ me = Me0
    /\ frames = 0
    /\ img = <<>>
    /\ warned = FALSE
    /\ callbackCalls = 0
    /\ onerrorCalls = 0
    /\ apng = Me0
    /\ helper = <<>>
    /\ call = <<>>

\* new APNG.Parser(input, callback, onerror) with an ArrayBuffer input
ParseBuffer ==
    /\ pc = "new"
    /\ \E r \in {ParseResult(buffer)} :
           /\ me' = r.me
           /\ buffer' = r.buffer
           /\ frames' = r.frames
           /\ img' = r.img
           /\ warned' = r.warned
           /\ thrown' = r.thrown
           /\ pc' = IF r.thrown = "" THEN "parsed" ELSE "thrown"
    /\ UNCHANGED <<source, hasOnerror, callbackCalls, onerrorCalls, playerVars>>

\* variant: every loaded frame calls back
loadHandlerAlways(index) ==
    /\ me.isAPNG
    /\ index + 1 \in DOMAIN img
    /\ img[index + 1] = "loading"
    /\ DecoderAccepts(me.frames[index + 1])
    /\ img' = [img EXCEPT ![index + 1] = "loaded"]
    /\ callbackCalls' = callbackCalls + 1
    /\ UNCHANGED <<buffer, source, hasOnerror, pc, thrown, me, frames, warned, onerrorCalls, playerVars>>

\* img.onload of frame `index` (0-based, as in files.forEach)
loadHandler(index) ==
    /\ me.isAPNG
    /\ index + 1 \in DOMAIN img
    /\ img[index + 1] = "loading"
    /\ DecoderAccepts(me.frames[index + 1])
    /\ img' = [img EXCEPT ![index + 1] = "loaded"]
    /\ callbackCalls' = IF index = frames - 1 THEN callbackCalls + 1 ELSE callbackCalls
    /\ UNCHANGED <<buffer, source, hasOnerror, pc, thrown, me, frames, warned, onerrorCalls, playerVars>>

\* variant: the success callback is also made when onerror is installed
errorHandlerBoth(index) ==
    /\ me.isAPNG
    /\ index + 1 \in DOMAIN img
    /\ img[index + 1] = "loading"
    /\ img' = [img EXCEPT ![index + 1] = "error"]
    /\ onerrorCalls' = IF hasOnerror THEN onerrorCalls + 1 ELSE onerrorCalls
    /\ callbackCalls' = IF index = frames - 1 THEN callbackCalls + 1 ELSE callbackCalls
    /\ UNCHANGED <<buffer, source, hasOnerror, pc, thrown, me, frames, warned, playerVars>>

\* img.onerror of frame `index`
errorHandler(index) ==
    /\ me.isAPNG
    /\ index + 1 \in DOMAIN img
    /\ img[index + 1] = "loading"
    /\ img' = [img EXCEPT ![index + 1] = "error"]
    /\ onerrorCalls' = IF hasOnerror THEN onerrorCalls + 1 ELSE onerrorCalls
    /\ callbackCalls' = IF ~hasOnerror /\ index = frames - 1
                        THEN callbackCalls + 1 ELSE callbackCalls
    /\ UNCHANGED <<buffer, source, hasOnerror, pc, thrown, me, frames, warned, playerVars>>

\* variant: width and height exchanged
RegularFrameInfoSwapped(m) ==
    [ x |-> 0, y |-> 0, width |-> m.height, height |-> m.width,
      delay |-> RatInt(-1), dispose |-> 1, blend |-> 0 ]

\* the frameInfo entry of a regular PNG
RegularFrameInfo(m) ==
    [ x |-> 0, y |-> 0, width |-> m.width, height |-> m.height,
      delay |-> RatInt(-1), dispose |-> 1, blend |-> 0 ]

\* me.frames[0].onload of the regular PNG branch
PngOnload ==
    /\ ~me.isAPNG
    /\ 1 \in DOMAIN img
    /\ img[1] = "loading"
    /\ DecoderAccepts(me.frames[1])
    /\ img' = [img EXCEPT ![1] = "loaded"]
    /\ me' = [me EXCEPT !.frameInfo = Append(@, RegularFrameInfo(me))]
    /\ callbackCalls' = callbackCalls + 1
    /\ UNCHANGED <<buffer, source, hasOnerror, pc, thrown, frames, warned, onerrorCalls, playerVars>>

\* the regular PNG fails to decode: the branch installs no onerror handler
PngDecodeError ==
    /\ ~me.isAPNG
    /\ 1 \in DOMAIN img
    /\ img[1] = "loading"
    /\ img' = [img EXCEPT ![1] = "error"]
    /\ UNCHANGED <<buffer, source, hasOnerror, pc, thrown, me, frames, warned,
                   callbackCalls, onerrorCalls, playerVars>>

Next ==
    \/ ParseBuffer
    \/ \E index \in 0..(Len(img) - 1) : loadHandler(index)
    \/ \E index \in 0..(Len(img) - 1) : errorHandler(index)
    \/ PngOnload
    \/ PngDecodeError

Spec == Init /\ [][Next]_vars

\* The constructor alone: parseBuffer runs synchronously, and what it leaves in
\* frames and frameInfo is not changed by any later decoder event of an APNG.
ConstructorNext == ParseBuffer

ConstructorSpec == Init /\ [][ConstructorNext]_vars

\* a load event of the decoder, for a frame it can load
DecoderLoads ==
    \/ \E index \in 0..(Len(img) - 1) : loadHandler(index)
    \/ PngOnload

\* The decoder answers every frame it is given and rejects none: it loads every
\* frame it can load, and every pending load event is eventually delivered.
AcceptingNext == ParseBuffer \/ DecoderLoads

AcceptingSpec == Init /\ [][AcceptingNext]_vars /\ WF_vars(DecoderLoads)

(***************************************************************************)
(* What the claims speak about: the chunks of the input as handed in and   *)
(* the chunks of a synthesized frame.                                      *)
(***************************************************************************)
ChunksOf(png) == ScanChunks(png, 8, <<>>, FALSE).chunks

SourceChunks == ChunksOf(source)

RECURSIVE SelectIdx(_, _, _)
\* the indices k >= from of chunks whose name is in names, ascending
SelectIdx(chunks, names, from) ==
    IF from > Len(chunks) THEN <<>>
    ELSE (IF chunks[from].name \in names THEN <<from>> ELSE <<>>)
             \o SelectIdx(chunks, names, from + 1)

Count(chunks, name) == Len(SelectIdx(chunks, {name}, 1))

SourceHasAcTL == Count(SourceChunks, acTL) > 0

\* positions of the fcTL chunks in the source
SourceFcTL == SelectIdx(SourceChunks, {fcTL}, 1)

\* the whole chunk (length, type, data, CRC) as bytes
WholeChunk(png, chunk) == Slice(png, chunk.pos - 8, chunk.size + 12)

ChunkData(png, chunk) == Slice(png, chunk.pos, chunk.size)

\* the CRC field of a chunk matches the CRC32 of its type and data
CrcValid(png, chunk) ==
    Slice(png, chunk.pos + chunk.size, 4) = PngCrc32(Slice(png, chunk.pos - 4, chunk.size + 4))

\* the image data that follows the i-th fcTL of the source, up to the next fcTL
SourceDataAfter(i) ==
    LET chunks == SourceChunks
        fc    == SelectIdx(chunks, {fcTL}, 1)
        first == fc[i] + 1
        last  == IF i < Len(fc) THEN fc[i + 1] - 1 ELSE Len(chunks)
        idx   == SelectIdx(chunks, {IDAT, fdAT}, first)
        upto  == SelectSeq(idx, LAMBDA k : k <= last)
    IN  [n \in 1..Len(upto) |->
            LET c == chunks[upto[n]]
            IN  IF c.name = IDAT THEN ChunkData(source, c)
                ELSE Slice(source, c.pos + 4, c.size - 4)]

\* the payloads of the IDAT chunks of a synthesized frame
FramePayloads(png) ==
    LET cs == ChunksOf(png)
        idx == SelectIdx(cs, {IDAT}, 1)
    IN  [n \in 1..Len(idx) |-> ChunkData(png, cs[idx[n]])]

Completed == callbackCalls > 0

\* the width and height stored in the first IHDR chunk of the source
SourceIhdr ==
    LET chunks == SourceChunks
    IN  chunks[SelectIdx(chunks, {IHDR}, 1)[1]]
SourceWidth == GetUint32(source, SourceIhdr.pos)
SourceHeight == GetUint32(source, SourceIhdr.pos + 4)

(***************************************************************************)
(* C1: for an input with a valid signature and no acTL chunk, when the     *)
(* success callback fires the Animation has exactly one frame, the         *)
(* original byte sequence, frameInfo is the single entry                   *)
(* {0, 0, IHDR width, IHDR height, delay -1, dispose 1, blend 0}, isAPNG   *)
(* is false and iterations is 0.                                           *)
(***************************************************************************)
C1_RegularPng ==
    (Completed /\ ~SourceHasAcTL) =>
        /\ me.frames = << source >>
        /\ me.frameInfo = << [ x |-> 0, y |-> 0, width |-> SourceWidth,
                               height |-> SourceHeight, delay |-> RatInt(-1),
                               dispose |-> 1, blend |-> 0 ] >>
        /\ me.isAPNG = FALSE
        /\ me.iterations = 0

C1_Witness == Completed /\ ~SourceHasAcTL /\ Len(SourceChunks) > 2

(***************************************************************************)
(* C2: when the success callback fires, frames and frameInfo have the same *)
(* length; for an APNG that length is the number of fcTL chunks of the     *)
(* source, and frame i is built from the image data that followed the i-th *)
(* fcTL and carries the region size of frameInfo[i].                       *)
(***************************************************************************)
C2_FramesPaired ==
    Completed =>
        /\ Len(me.frames) = Len(me.frameInfo)
        /\ me.isAPNG =>
            /\ Len(me.frames) = Len(SourceFcTL)
            /\ \A i \in 1..Len(me.frames) :
                /\ FramePayloads(me.frames[i]) = SourceDataAfter(i)
                /\ GetUint32(me.frames[i], 16) = me.frameInfo[i].width
                /\ GetUint32(me.frames[i], 20) = me.frameInfo[i].height
                /\ me.frameInfo[i].width
                     = GetUint32(source, SourceChunks[SourceFcTL[i]].pos + 4)

C2_Witness ==
    /\ Completed /\ me.isAPNG /\ Len(me.frames) = 2
    /\ FramePayloads(me.frames[1]) # <<>>
    /\ FramePayloads(me.frames[2]) = <<>>
    /\ me.frameInfo[1].width # me.frameInfo[2].width

(***************************************************************************)
(* C3 as stated: for every successfully parsed Animation, APNG or plain    *)
(* PNG, duration equals the sum of the delays of frameInfo.                *)
(***************************************************************************)
C3_DurationIsSum == Completed => me.duration = SumDelays(me.frameInfo)

(***************************************************************************)
(* C3 amended: for a parsed APNG duration equals the sum of the delays of  *)
(* frameInfo; for a plain PNG duration stays 0 while its only frame has    *)
(* delay -1.                                                               *)
(***************************************************************************)
C3_DurationIsSumApng ==
    Completed =>
        IF me.isAPNG
        THEN me.duration = SumDelays(me.frameInfo)
        ELSE me.duration = RatInt(0) /\ SumDelays(me.frameInfo) = RatInt(-1)

C3_Witness ==
    /\ Completed /\ me.isAPNG /\ Len(me.frameInfo) >= 2
    /\ me.frameInfo[1].delay # me.frameInfo[2].delay
    /\ me.duration = SumDelays(me.frameInfo)

\* the data of the i-th fcTL chunk of the source
SourceFcTLData(i) ==
    LET chunks == SourceChunks
    IN  ChunkData(source, chunks[SelectIdx(chunks, {fcTL}, 1)[i]])

(***************************************************************************)
(* C4 as stated: every frameInfo region lies inside the canvas, for every  *)
(* fcTL content the parser accepts.                                        *)
(***************************************************************************)
C4_RegionInCanvas ==
    Completed =>
        \A i \in 1..Len(me.frameInfo) :
            /\ me.frameInfo[i].x + me.frameInfo[i].width <= me.width
            /\ me.frameInfo[i].y + me.frameInfo[i].height <= me.height

(***************************************************************************)
(* C4 amended: the parser does not validate regions: every frameInfo       *)
(* region is the x, y, width, height of its fcTL chunk as stored, so it    *)
(* lies inside the canvas exactly when the fcTL region does.               *)
(***************************************************************************)
C4_RegionAsStored ==
    (Completed /\ me.isAPNG) =>
        /\ me.width = SourceWidth
        /\ me.height = SourceHeight
        /\ \A i \in 1..Len(me.frameInfo) :
            LET d == SourceFcTLData(i)
            IN  /\ me.frameInfo[i].width = GetUint32(d, 4)
                /\ me.frameInfo[i].height = GetUint32(d, 8)
                /\ me.frameInfo[i].x = GetUint32(d, 12)
                /\ me.frameInfo[i].y = GetUint32(d, 16)

C4_Witness ==
    /\ Completed /\ me.isAPNG
    /\ \E i \in 1..Len(me.frameInfo) :
          me.frameInfo[i].x + me.frameInfo[i].width > me.width
    /\ \E i \in 1..Len(me.frameInfo) :
          /\ me.frameInfo[i].x > 0
          /\ me.frameInfo[i].x + me.frameInfo[i].width <= me.width

(***************************************************************************)
(* C5: for every fcTL chunk, the delay is 10 ms when delay_den (the u16 at *)
(* data offset 22) is 0, whatever delay_num is, and delay_num / delay_den  *)
(* * 1000 otherwise.                                                       *)
(***************************************************************************)
C5_Delay ==
    me.isAPNG =>
        \A i \in 1..Len(me.frameInfo) :
            LET d   == SourceFcTLData(i)
                num == GetUint16(d, 20)
                den == GetUint16(d, 22)
            IN  me.frameInfo[i].delay = IF den = 0 THEN RatInt(10) ELSE Rat(num * 1000, den)

C5_Witness ==
    /\ pc = "parsed" /\ me.isAPNG /\ Len(me.frameInfo) = 3
    /\ \E i \in 1..3 : GetUint16(SourceFcTLData(i), 22) = 0
                       /\ GetUint16(SourceFcTLData(i), 20) # 0
                       /\ me.frameInfo[i].delay = RatInt(10)
    /\ \E i \in 1..3 : me.frameInfo[i].delay = RatInt(25)
    /\ \E i \in 1..3 : me.frameInfo[i].delay = <<1000, 3>>

(***************************************************************************)
(* C6: round trip.  For every frame i of a parsed APNG, parsing the        *)
(* synthesized PNG of frame i succeeds with isAPNG false and a single      *)
(* frame whose width and height are those of frameInfo[i]; the IHDR of the *)
(* synthesized PNG equals the source IHDR after the first eight bytes.     *)
(***************************************************************************)
C6_RoundTrip ==
    (pc = "parsed" /\ me.isAPNG) =>
        \A i \in 1..Len(me.frames) :
            LET r  == ParseResult(me.frames[i])
                fi == RegularFrameInfo(r.me)
                ih == ChunksOf(me.frames[i])[1]
            IN  /\ r.thrown = ""
                /\ r.me.isAPNG = FALSE
                /\ r.me.frames = << me.frames[i] >>
                /\ DecoderAccepts(me.frames[i])
                /\ r.me.width = me.frameInfo[i].width
                /\ r.me.height = me.frameInfo[i].height
                /\ fi.width = me.frameInfo[i].width
                /\ fi.height = me.frameInfo[i].height
                /\ ih.name = IHDR
                /\ ih.size = SourceIhdr.size
                /\ Slice(me.frames[i], ih.pos + 8, ih.size - 8)
                     = Slice(source, SourceIhdr.pos + 8, SourceIhdr.size - 8)

C6_Witness ==
    /\ pc = "parsed" /\ me.isAPNG /\ Len(me.frames) = 2
    /\ me.frameInfo[1].width # me.width
    /\ me.frameInfo[2].height # me.height
    /\ me.frameInfo[1].width # me.frameInfo[2].width
    /\ ParseResult(me.frames[1]).me.width = me.frameInfo[1].width

\* the chunk names of a byte sequence, in order
Names(png) == LET cs == ChunksOf(png) IN [k \in 1..Len(cs) |-> cs[k].name]

\* IHDR, then header chunks, then IDAT chunks, then IEND
RECURSIVE InPhaseOrder(_, _, _)
InPhaseOrder(names, k, phase) ==
    IF k > Len(names) THEN TRUE
    ELSE LET p == IF names[k] = IDAT THEN 2 ELSE IF names[k] = IEND THEN 3 ELSE 1
         IN  p >= phase /\ InPhaseOrder(names, k + 1, p)

FrameShape(png) ==
    LET names == Names(png)
    IN  /\ Slice(png, 0, 8) = PNGSignature
        /\ Len(names) >= 2
        /\ names[1] = IHDR
        /\ names[Len(names)] = IEND
        /\ Count(ChunksOf(png), IEND) = 1
        /\ InPhaseOrder(names, 1, 1)
        \* the chunks cover the byte sequence exactly
        /\ LET last == ChunksOf(png)[Len(names)] IN last.pos + last.size + 4 = Len(png)

(***************************************************************************)
(* C7 as stated: every synthesized frame begins with the PNG signature,    *)
(* contains exactly one IHDR chunk, the first chunk, and exactly one IEND  *)
(* chunk, the last chunk, with the IDAT chunks between the header chunks   *)
(* and IEND.                                                               *)
(***************************************************************************)
C7_OneIhdrOneIend ==
    \A i \in 1..Len(me.frames) :
        me.isAPNG => FrameShape(me.frames[i]) /\ Count(ChunksOf(me.frames[i]), IHDR) = 1

(***************************************************************************)
(* C7 amended: every synthesized frame begins with the PNG signature, its  *)
(* first chunk is IHDR and its last chunk is its only IEND, with the IDAT  *)
(* chunks between the header chunks and IEND; it contains one IHDR per     *)
(* IHDR chunk of the source, hence exactly one when the source has one.    *)
(***************************************************************************)
C7_IhdrPerSourceIhdr ==
    \A i \in 1..Len(me.frames) :
        me.isAPNG =>
            /\ FrameShape(me.frames[i])
            /\ Count(ChunksOf(me.frames[i]), IHDR) = Count(SourceChunks, IHDR)
            /\ Count(ChunksOf(me.frames[i]), IDAT) = Len(SourceDataAfter(i))

C7_Witness ==
    /\ pc = "parsed" /\ me.isAPNG /\ Len(me.frames) = 1
    /\ Count(SourceChunks, IHDR) = 1
    /\ Count(ChunksOf(me.frames[1]), IDAT) = 2
    /\ Names(me.frames[1]) = <<IHDR, gAMA, PLTE, IDAT, IDAT, IEND>>

(***************************************************************************)
(* C8 as stated: every chunk of every synthesized frame, the patched IHDR, *)
(* each copied header chunk, each IDAT and the IEND, carries a CRC field   *)
(* equal to the CRC32 of its own type and data, for every source the       *)
(* scanner accepts.                                                        *)
(***************************************************************************)
C8_AllCrcValid ==
    \A i \in 1..Len(me.frames) :
        me.isAPNG =>
            \A k \in 1..Len(ChunksOf(me.frames[i])) :
                CrcValid(me.frames[i], ChunksOf(me.frames[i])[k])

\* the source chunks that are to be copied as they are
SourceCopied ==
    SelectIdx(SourceChunks, {PLTE, gAMA, pHYs, tRNS, iCCP, sRGB, sBIT, sPLT}, 1)

\* the chunks of a frame that are neither IHDR, IDAT nor IEND
FrameCopied(png) ==
    LET cs == ChunksOf(png)
        all == { cs[k].name : k \in 1..Len(cs) }
    IN  SelectIdx(cs, all \ {IHDR, IDAT, IEND}, 1)

(***************************************************************************)
(* C8 amended: the chunks the demuxer builds, the patched IHDR, each IDAT  *)
(* and the IEND, carry the CRC32 of their own type and data; a copied      *)
(* header chunk carries the CRC field of the source chunk unchanged, which *)
(* is valid exactly when the source's is.                                  *)
(***************************************************************************)
C8_BuiltCrcValid ==
    \A i \in 1..Len(me.frames) :
        me.isAPNG =>
            LET png == me.frames[i]
                cs  == ChunksOf(png)
                cp  == FrameCopied(png)
            IN  /\ \A k \in 1..Len(cs) :
                      cs[k].name \in {IHDR, IDAT, IEND} => CrcValid(png, cs[k])
                /\ Len(cp) = Len(SourceCopied)
                /\ \A n \in 1..Len(cp) :
                      LET c  == cs[cp[n]]
                          sc == SourceChunks[SourceCopied[n]]
                      IN  /\ Slice(png, c.pos + c.size, 4) = Slice(source, sc.pos + sc.size, 4)
                          /\ CrcValid(png, c) <=> CrcValid(source, sc)

C8_Witness ==
    /\ pc = "parsed" /\ me.isAPNG /\ Len(me.frames) >= 1
    /\ Count(ChunksOf(me.frames[1]), IDAT) >= 1
    /\ \E k \in 1..Len(ChunksOf(me.frames[1])) :
          ~CrcValid(me.frames[1], ChunksOf(me.frames[1])[k])
    /\ \E k \in 1..Len(ChunksOf(me.frames[1])) :
          /\ ChunksOf(me.frames[1])[k].name = PLTE
          /\ CrcValid(me.frames[1], ChunksOf(me.frames[1])[k])
    /\ me.frameInfo[1].width # me.width

(***************************************************************************)
(* C9: in every synthesized frame the chunks other than IHDR, IDAT and     *)
(* IEND are exactly the source chunks of type PLTE, gAMA, pHYs, tRNS,      *)
(* iCCP, sRGB, sBIT or sPLT, in source order and byte-identical (length,   *)
(* type, data, CRC); chunks of any other type never appear.                *)
(***************************************************************************)
C9_HeaderChunksCopied ==
    \A i \in 1..Len(me.frames) :
        me.isAPNG =>
            LET png == me.frames[i]
                cs  == ChunksOf(png)
                cp  == FrameCopied(png)
                src == SourceCopied
            IN  /\ Len(cp) = Len(src)
                /\ \A n \in 1..Len(cp) :
                      WholeChunk(png, cs[cp[n]]) = WholeChunk(source, SourceChunks[src[n]])

C9_Witness ==
    /\ pc = "parsed" /\ me.isAPNG /\ Len(me.frames) >= 1
    /\ Count(SourceChunks, tEXt) = 1
    /\ Count(SourceChunks, fdAT) = 1
    /\ Len(FrameCopied(me.frames[1])) = 2
    /\ Count(ChunksOf(me.frames[1]), tEXt) = 0

(***************************************************************************)
(* C10 as stated: in every run the success callback is invoked at most     *)
(* once, and the success callback and the error callback are never both    *)
(* invoked in the same run.                                                *)
(***************************************************************************)
C10_OnceAndNeverBoth ==
    /\ callbackCalls <= 1
    /\ ~(callbackCalls > 0 /\ onerrorCalls > 0)

(***************************************************************************)
(* C10 amended: in every run the success callback is invoked at most once. *)
(* Both callbacks are invoked in the same run when a frame other than      *)
(* frame num_frames - 1 is rejected and frame num_frames - 1 loads; when   *)
(* frame num_frames - 1 itself is rejected and an error callback is        *)
(* installed, the success callback is never invoked.                       *)
(***************************************************************************)
C10_AtMostOnce ==
    /\ callbackCalls <= 1
    /\ (me.isAPNG /\ hasOnerror /\ frames \in DOMAIN img /\ img[frames] = "error")
          => callbackCalls = 0
    /\ (me.isAPNG /\ callbackCalls > 0 /\ onerrorCalls > 0)
          => /\ img[frames] = "loaded"
             /\ \E k \in DOMAIN img : k # frames /\ img[k] = "error"

C10_Witness ==
    /\ callbackCalls = 1 /\ onerrorCalls = 2 /\ Len(img) = 3
    /\ \A k \in DOMAIN img : img[k] # "loading"

(***************************************************************************)
(* C11 as stated: under every interleaving of the decoder completions,     *)
(* when the success callback is invoked no frame is still outstanding:     *)
(* every frame has finished decoding.                                      *)
(***************************************************************************)
C11_CallbackAfterAllDecoded ==
    Completed => \A k \in DOMAIN img : img[k] # "loading"

(***************************************************************************)
(* C12 as stated: for every input with a valid signature that parses into  *)
(* frames the decoder all accepts, the success callback eventually fires   *)
(* (the decoder answering every frame), also when the number of fcTL       *)
(* chunks differs from the acTL frame count in either direction.           *)
(***************************************************************************)
C12_EventuallyCompletes ==
    (/\ pc = "parsed"
     /\ Len(me.frames) >= 1
     /\ \A k \in DOMAIN me.frames : DecoderAccepts(me.frames[k]))
        ~> Completed

\* the number of frames the decoder has rejected
Rejected == Cardinality({k \in DOMAIN img : img[k] = "error"})

C14_BadSignature ==
    (pc # "new" /\ Slice(source, 0, 8) # PNGSignature) =>
        /\ pc = "thrown"
        /\ thrown = "Not a (A)PNG file."
        /\ me.frames = <<>>
        /\ me.frameInfo = <<>>
        /\ callbackCalls = 0
        /\ hasOnerror => onerrorCalls = 1

(***************************************************************************)
(* C15 as stated: for every input with a valid signature whose first chunk *)
(* is not IHDR, with or without acTL, with or without fcTL, the parse      *)
(* fails with the IHDR error, width and height are not taken from that     *)
(* chunk, and the success callback never fires.                            *)
(***************************************************************************)
C15_BadPng ==
    (pc # "new" /\ Slice(source, 0, 8) = PNGSignature /\ SourceChunks[1].name # IHDR) =>
        /\ pc = "thrown"
        /\ thrown = "Error in PNG. IHDR not in correct position."
        /\ me.width = 0
        /\ me.height = 0
        /\ callbackCalls = 0

(***************************************************************************)
(* APNG.Helper: the canvas.                                                *)
(*                                                                         *)
(* A pixel is the stack of the rasters painted on it, bottom first, since  *)
(* it was last cleared; the empty stack is fully transparent.  A raster is *)
(* opaque or translucent as a whole and covers its whole rectangle.        *)
(* Painting over an opaque layer hides what is beneath, and only the       *)
(* MaxLayers topmost layers of a pixel are told apart.  The debug overlay  *)
(* (options.debug) is off.                                                 *)
(***************************************************************************)
MaxLayers == 2

\* the cells of the canvas of the animation
Cells == (0..(apng.width - 1)) \X (0..(apng.height - 1))

InRect(c, x, y, w, h) == c[1] >= x /\ c[1] < x + w /\ c[2] >= y /\ c[2] < y + h

\* what is seen of a stack of layers: from the topmost opaque layer up, and
\* no more than the MaxLayers topmost
Visible(p) ==
    LET opq  == {k \in 1..Len(p) : p[k].opaque}
        from == IF opq = {} THEN 1 ELSE CHOOSE k \in opq : \A j \in opq : j <= k
        cut  == Len(p) - MaxLayers + 1
    IN  SubSeq(p, IF cut > from THEN cut ELSE from, Len(p))

\* source-over composition of the pixel src onto the pixel dst
Over(dst, src) == Visible(dst \o src)

\* a canvas after its width is set: every pixel transparent
Blank == [c \in Cells |-> <<>>]

\* ctx.clearRect(x, y, w, h)
ClearRect(cv, x, y, w, h) == [c \in Cells |-> IF InRect(c, x, y, w, h) THEN <<>> ELSE cv[c]]

\* ctx.drawImage(image, x, y): the raster has the size of the image
DrawImage(cv, image, x, y) ==
    [c \in Cells |-> IF InRect(c, x, y, image.width, image.height)
                     THEN Over(cv[c], << [id |-> image.id, opaque |-> image.opaque] >>)
                     ELSE cv[c]]

\* ctx.drawImage(temp, 0, 0): a canvas of the same size drawn over the canvas
DrawCanvas(cv, other) == [c \in Cells |-> Over(cv[c], other[c])]

\* ctxt.clearRect(whole temp), then ctxt.drawImage(canvas, x, y, w, h, x, y, w, h)
CopyRegion(cv, x, y, w, h) == [c \in Cells |-> IF InRect(c, x, y, w, h) THEN cv[c] ELSE <<>>]

(***************************************************************************)
(* APNG.Helper: the animations and options it is constructed with.         *)
(***************************************************************************)
Image(id, opaque, w, h) == [id |-> id, opaque |-> opaque, width |-> w, height |-> h]

Info(x, y, w, h, delay, dispose, blend) ==
    [ x |-> x, y |-> y, width |-> w, height |-> h, delay |-> RatInt(delay),
      dispose |-> dispose, blend |-> blend ]

\* a regular PNG as the parser leaves it
Still ==
    [ width |-> 2, height |-> 1, iterations |-> 0, duration |-> RatInt(0), isAPNG |-> FALSE,
      frames |-> << Image(0, TRUE, 2, 1) >>,
      frameInfo |-> << Info(0, 0, 2, 1, -1, 1, 0) >> ]

\* two frames, the first translucent and blended over, the second restoring
\* (dispose 2); one iteration
Anim2 ==
    [ width |-> 2, height |-> 1, iterations |-> 1, duration |-> RatInt(116), isAPNG |-> TRUE,
      frames |-> << Image(0, FALSE, 2, 1), Image(1, TRUE, 1, 1) >>,
      frameInfo |-> << Info(0, 0, 2, 1, 100, 0, 1), Info(1, 0, 1, 1, 16, 2, 1) >> ]

\* three frames, every dispose and blend value, two iterations
Anim3 ==
    [ width |-> 2, height |-> 1, iterations |-> 2, duration |-> RatInt(60), isAPNG |-> TRUE,
      frames |-> << Image(0, TRUE, 2, 1), Image(1, FALSE, 1, 1), Image(2, FALSE, 1, 1) >>,
      frameInfo |-> << Info(0, 0, 2, 1, 10, 0, 0), Info(0, 0, 1, 1, 20, 2, 1),
                       Info(1, 0, 1, 1, 30, 1, 1) >> ]

Animations == {Still, Anim2, Anim3}

Modes == {"forward", "backward", "pingpong"}

\* options.iterations as given to the constructor
IterationOptions == {-1, 1}

Events == {"play", "stop", "pause", "ended", "frame", "iteration"}

\* what a callback of the user does when it is invoked
Reactions == {"none", "play", "pause", "stop"}

NoHandlers == [e \in Events |-> "none"]

\* the callbacks installed during one call: at most one of them calls back into the helper
Handlers ==
    { NoHandlers,
      [NoHandlers EXCEPT !["frame"] = "pause"],
      [NoHandlers EXCEPT !["frame"] = "stop"],
      [NoHandlers EXCEPT !["ended"] = "play"] }

(***************************************************************************)
(* APNG.Helper: construction.  The state of a helper is a record: playing  *)
(* (me.playing), the closure variables cFrame, loops, iterations, clrBg,   *)
(* commit, timeRef, frames, frameInfo, the options mode and                *)
(* ignoreIterations, the canvas and the internal canvas temp, timers (the  *)
(* ids of the scheduled callbacks not yet run or cancelled; timeRef is the  *)
(* one of them clearTimeout(timeRef) cancels, 0 when that one has run or   *)
(* is cancelled, as clearing it again does nothing), and what the          *)
(* call in progress has done: emitted (the callbacks invoked, in order),   *)
(* rendered (the cFrame of every render() completed), thrown (a TypeError  *)
(* ended the call), on (the callbacks installed), reacted (a callback has  *)
(* called back into the helper), seen (what the currentFrame getter        *)
(* returns during each onframe).  Time stamps are not modelled.            *)
(***************************************************************************)
Reverse(seq) == [k \in 1..Len(seq) |-> seq[Len(seq) + 1 - k]]

\* variant: pingpong does not play the reversed copy
ModeSequenceOnce(seq, mode) ==
    IF mode = "backward" THEN Reverse(seq) ELSE seq

\* the mode setter: frames / frameInfo in the order of the mode
ModeSequence(seq, mode) ==
    IF mode = "backward" THEN Reverse(seq)
    ELSE IF mode = "pingpong" THEN seq \o Reverse(seq)
    ELSE seq

\* set mode(mode)
SetModeOf(s, a, mode) ==
    [s EXCEPT !.frames = ModeSequence(a.frames, mode),
              !.frameInfo = ModeSequence(a.frameInfo, mode),
              !.cFrame = IF @ >= Len(ModeSequence(a.frames, mode)) THEN 0 ELSE @,
              !.mode = mode]

\* iterations as the constructor resolves it
ResolvedIterations(a, opt) == IF opt.iterations < 0 THEN a.iterations ELSE opt.iterations

\* the helper right after new APNG.Helper(canvas, apng, options)
Construct(a, opt) ==
    SetModeOf(
        [ playing |-> FALSE, cFrame |-> 0, loops |-> 0,
          iterations |-> IF ResolvedIterations(a, opt) < 0 THEN 0
                         ELSE ResolvedIterations(a, opt),
          ignoreIterations |-> IF ResolvedIterations(a, opt) = 0 THEN TRUE
                               ELSE IF ResolvedIterations(a, opt) < 0 THEN FALSE
                               ELSE opt.ignoreIterations,
          mode |-> opt.mode, clrBg |-> FALSE, commit |-> TRUE,
          timeRef |-> 0, timers |-> {},
          frames |-> <<>>, frameInfo |-> <<>>,
          canvas |-> [c \in (0..(a.width - 1)) \X (0..(a.height - 1)) |-> <<>>],
          temp |-> [c \in (0..(a.width - 1)) \X (0..(a.height - 1)) |-> <<>>],
          emitted |-> <<>>, rendered |-> <<>>, thrown |-> FALSE,
          on |-> NoHandlers, reacted |-> FALSE, seen |-> <<>> ],
        a, opt.mode)

(***************************************************************************)
(* APNG.Helper: render.                                                    *)
(***************************************************************************)
\* the first step of render(): if ( clrBg ) { ctx.drawImage(temp, 0, 0); clrBg = false; }
\* (temp is read only while clrBg holds and is cleared before it is written
\* again: what it holds in between is not kept)
Restore(s) ==
    IF s.clrBg
    THEN [s EXCEPT !.canvas = DrawCanvas(@, s.temp), !.clrBg = FALSE,
                   !.temp = [c \in DOMAIN @ |-> <<>>]]
    ELSE s

\* variant: the restore is not armed by dispose 2
DisposeNoRestore(s, info) ==
    IF info.dispose = 1
    THEN [s EXCEPT !.canvas = ClearRect(@, info.x, info.y, info.width, info.height)]
    ELSE s

\* the dispose step of render()
Dispose(s, info) ==
    IF info.dispose = 1
    THEN [s EXCEPT !.canvas = ClearRect(@, info.x, info.y, info.width, info.height)]
    ELSE IF info.dispose = 2
    THEN [s EXCEPT !.temp = CopyRegion(s.canvas, info.x, info.y, info.width, info.height),
                   !.clrBg = TRUE]
    ELSE s

\* the blend step of render()
Blend(s, info) ==
    IF info.blend = 0
    THEN [s EXCEPT !.canvas = ClearRect(@, info.x, info.y, info.width, info.height)]
    ELSE s

\* ctx.drawImage(frame, info.x, info.y)
Draw(s, frame, info) ==
    [s EXCEPT !.canvas = DrawImage(@, frame, info.x, info.y),
              !.rendered = Append(@, s.cFrame)]

\* render() after the restore step: frames[cFrame] and frameInfo[cFrame] are
\* undefined when cFrame is out of range, and info.dispose is a TypeError
RenderFrame(s) ==
    IF s.cFrame + 1 \in DOMAIN s.frameInfo
    THEN Draw(Blend(Dispose(s, s.frameInfo[s.cFrame + 1]), s.frameInfo[s.cFrame + 1]),
              s.frames[s.cFrame + 1], s.frameInfo[s.cFrame + 1])
    ELSE [s EXCEPT !.thrown = TRUE]

\* render()
Render(s) == IF s.thrown THEN s ELSE RenderFrame(Restore(s))

(***************************************************************************)
(* APNG.Helper: playback.  Every operation is the whole synchronous call,  *)
(* the callbacks it invokes included.  A callback may call play(), pause() *)
(* or stop() of the helper; one callback per call does so.  A TypeError    *)
(* (thrown) ends the call where it is raised and leaves the state as it    *)
(* is at that point.                                                       *)
(***************************************************************************)
RECURSIVE Emit(_, _), Loop(_), ApiPlay(_), ApiPause(_), ApiStop(_)
RECURSIVE TimeIndex(_, _, _, _), TimeIndexStrict(_, _, _, _)

\* a callback the user has installed calls back into the helper
React(s, reaction) ==
    IF reaction = "play" THEN ApiPlay(s)
    ELSE IF reaction = "pause" THEN ApiPause(s)
    ELSE ApiStop(s)

\* the currentFrame getter, function() {return cFrame;}, as the handler of ev reads it
Seen(s, ev) == IF ev = "frame" THEN Append(s.seen, s.cFrame) ELSE s.seen

\* if ( me.on<ev> ) me.on<ev>(getEvent())
Emit(s, ev) ==
    IF s.thrown THEN s
    ELSE IF s.on[ev] = "none" \/ s.reacted
    THEN [s EXCEPT !.emitted = Append(@, ev), !.seen = Seen(s, ev)]
    ELSE React([s EXCEPT !.emitted = Append(@, ev), !.seen = Seen(s, ev),
                         !.reacted = TRUE], s.on[ev])

\* the least timer id not in use
FreshTimer(s) == CHOOSE id \in 1..(Cardinality(s.timers) + 1) :
                    /\ id \notin s.timers
                    /\ \A j \in 1..(id - 1) : j \in s.timers

\* timeRef = requestAnimationFrame(advance) or setTimeout(advance, info.delay)
Schedule(s) ==
    IF s.thrown THEN s
    ELSE [s EXCEPT !.timeRef = FreshTimer(s), !.timers = @ \cup {FreshTimer(s)}]

\* variant: loop() renders whatever commit is
LoopCommitted(s) ==
    IF s.thrown THEN s
    ELSE Schedule(Emit(Render(s), "frame"))

\* loop() of play(): info.delay of an undefined info is a TypeError
Loop(s) ==
    IF s.thrown THEN s
    ELSE IF s.commit THEN Schedule(Emit(Render(s), "frame"))
    ELSE IF s.cFrame + 1 \in DOMAIN s.frameInfo THEN Schedule(s)
    ELSE [s EXCEPT !.thrown = TRUE]

\* the internal play()
PlayInternal(s) == Emit(Loop([s EXCEPT !.playing = TRUE]), "play")

\* this.play
ApiPlay(s) == IF s.thrown \/ s.playing THEN s ELSE PlayInternal(s)

\* this.pause
ApiPause(s) ==
    IF s.thrown \/ ~s.playing THEN s
    ELSE Emit([s EXCEPT !.playing = FALSE, !.timers = @ \ {s.timeRef}, !.timeRef = 0],
              "pause")

\* this.stop after me.pause()
StopTail(s) == IF s.thrown THEN s ELSE Emit(Render([s EXCEPT !.cFrame = 0]), "stop")

\* variant: this.stop without its guard, as in version 0.4.0
ApiStopAlways(s) == IF s.thrown THEN s ELSE StopTail(ApiPause(s))

\* this.stop
ApiStop(s) == IF s.thrown \/ ~s.playing THEN s ELSE StopTail(ApiPause(s))

\* variant: the animation ends one loop late
EndCheckLate(s) ==
    IF s.thrown THEN s
    ELSE IF s.loops > s.iterations /\ ~s.ignoreIterations
    THEN Emit([s EXCEPT !.playing = FALSE], "ended")
    ELSE s

\* advance(): the end of the animation after oniteration
EndCheck(s) ==
    IF s.thrown THEN s
    ELSE IF s.loops >= s.iterations /\ ~s.ignoreIterations
    THEN Emit([s EXCEPT !.playing = FALSE], "ended")
    ELSE s

\* advance(): if ( me.playing ) loop()
Continue(s) == IF s.thrown THEN s ELSE IF s.playing THEN Loop(s) ELSE s

\* advance()
Advance(s) ==
    IF s.cFrame + 1 >= Len(s.frames)
    THEN Continue(EndCheck(Emit([s EXCEPT !.cFrame = 0, !.loops = @ + 1], "iteration")))
    ELSE Continue([s EXCEPT !.cFrame = @ + 1])

\* the currentFrame setter: the frame it clamps to
Clamp(s, frame) ==
    IF frame < 0 THEN 0
    ELSE IF frame >= Len(s.frames) THEN Len(s.frames) - 1
    ELSE frame

\* the currentFrame setter: while( i++ <= frame ) { render(); cFrame++; }
RECURSIVE RenderTo(_, _)
RenderTo(s, frame) ==
    IF s.thrown \/ s.cFrame > frame THEN s
    ELSE RenderTo([Render(s) EXCEPT !.cFrame = @ + 1], frame)

\* the currentFrame setter
SetCurrentFrameOf(s, frame) ==
    Emit(RenderTo([s EXCEPT !.canvas = [c \in DOMAIN @ |-> <<>>], !.cFrame = 0],
                  Clamp(s, frame)),
         "frame")

\* variant: the time must be passed, not reached
TimeIndexStrict(infos, time, i, delta) ==
    IF i >= Len(infos) THEN -1
    ELSE IF ~RatLeq(RatAdd(delta, infos[i + 1].delay), RatInt(time)) THEN i
    ELSE TimeIndexStrict(infos, time, i + 1, RatAdd(delta, infos[i + 1].delay))

\* the currentTime setter: the index its scan stops at, -1 when it runs out
TimeIndex(infos, time, i, delta) ==
    IF i >= Len(infos) THEN -1
    ELSE IF RatLeq(RatInt(time), RatAdd(delta, infos[i + 1].delay)) THEN i
    ELSE TimeIndex(infos, time, i + 1, RatAdd(delta, infos[i + 1].delay))

\* the currentTime setter
SetCurrentTimeOf(s, time) ==
    IF TimeIndex(s.frameInfo, time, 0, RatInt(0)) < 0 THEN s
    ELSE Emit(SetCurrentFrameOf(s, TimeIndex(s.frameInfo, time, 0, RatInt(0))), "frame")

\* the commit setter
SetCommitOf(s, state) ==
    IF ~s.commit /\ state THEN SetCurrentFrameOf([s EXCEPT !.commit = TRUE], s.cFrame)
    ELSE [s EXCEPT !.commit = state]

\* a call begins: nothing done yet, the callbacks as the user has set them
Begin(s, on) ==
    [s EXCEPT !.emitted = <<>>, !.rendered = <<>>, !.thrown = FALSE,
              !.reacted = FALSE, !.on = on, !.seen = <<>>]

(***************************************************************************)
(* The player: one helper over one parsed animation; the user calls its    *)
(* methods and sets its properties, and the browser runs the scheduled     *)
(* callbacks, in any order.                                                *)
(***************************************************************************)
MaxLoops == 1
MaxTimers == 1

Options == [mode : Modes, iterations : IterationOptions, ignoreIterations : BOOLEAN]

PlayerInit ==
    /\ buffer = <<>> /\ source = <<>> /\ hasOnerror = FALSE /\ pc = "done"
    /\ thrown = "" /\ me = Me0 /\ frames = 0 /\ img = <<>> /\ warned = FALSE
    /\ callbackCalls = 0 /\ onerrorCalls = 0
    /\ apng \in Animations
    /\ \E opt \in Options : helper = Construct(apng, opt)
    /\ call = [op |-> "new", arg |-> 0]

\* the state after a call of the user or of the browser
Called(op, arg, s) ==
    /\ Cardinality(s.timers) <= MaxTimers
    /\ helper' = [s EXCEPT !.on = NoHandlers]
    /\ call' = [op |-> op, arg |-> arg]
    /\ UNCHANGED <<parserVars, apng>>

\* the user's calls and the browser's, the callbacks drawn from H
Play(H) == \E on \in H : \E s \in {ApiPlay(Begin(helper, on))} : Called("play", 0, s)

Pause(H) == \E on \in H : \E s \in {ApiPause(Begin(helper, on))} : Called("pause", 0, s)

Stop(H) == \E on \in H : \E s \in {ApiStop(Begin(helper, on))} : Called("stop", 0, s)

SetCurrentFrame(H) == \E on \in H, frame \in (-1)..Len(helper.frames) :
    \E s \in {SetCurrentFrameOf(Begin(helper, on), frame)} : Called("currentFrame", frame, s)

\* the times the currentTime setter is given, in milliseconds
Times == {30, 200}

SetCurrentTime(H) == \E on \in H, time \in Times :
    \E s \in {SetCurrentTimeOf(Begin(helper, on), time)} : Called("currentTime", time, s)

SetMode == \E mode \in Modes :
    \E s \in {SetModeOf(Begin(helper, NoHandlers), apng, mode)} : Called("mode", 0, s)

SetCommit(H) == \E on \in H, state \in BOOLEAN :
    \E s \in {SetCommitOf(Begin(helper, on), state)} : Called("commit", 0, s)

\* a scheduled callback is taken off the timers as it runs
Fired(s, id) == [s EXCEPT !.timers = @ \ {id}, !.timeRef = IF @ = id THEN 0 ELSE @]

\* the browser runs a scheduled advance
Tick(H) == \E on \in H, id \in helper.timers :
    /\ helper.loops < MaxLoops
    /\ \E s \in {Advance(Begin(Fired(helper, id), on))} : Called("advance", 0, s)

PlayerNext ==
    \/ Play(Handlers) \/ Pause(Handlers) \/ Stop(Handlers)
    \/ SetCurrentFrame(Handlers) \/ SetCurrentTime(Handlers)
    \/ SetMode \/ SetCommit(Handlers) \/ Tick(Handlers)

PlayerSpec == PlayerInit /\ [][PlayerNext]_vars

\* the player when no callback calls back into the helper
QuietNext ==
    \/ Play({NoHandlers}) \/ Pause({NoHandlers}) \/ Stop({NoHandlers})
    \/ SetCurrentFrame({NoHandlers}) \/ SetCurrentTime({NoHandlers})
    \/ SetMode \/ SetCommit({NoHandlers})
    \/ Tick({NoHandlers})

QuietSpec == PlayerInit /\ [][QuietNext]_vars

(***************************************************************************)
(* Claims about the player.                                                *)
(***************************************************************************)
Occurrences(seq, x) == Cardinality({k \in DOMAIN seq : seq[k] = x})

\* C16: after current_frame = N is set, the current_frame getter returns N
\* clamped to [0, |sequence| - 1], in every playback mode
C16_SeekRoundTrip ==
    (call.op = "currentFrame" /\ ~helper.reacted)
        => helper.cFrame = Clamp(helper, call.arg)

\* frames 0..n rendered in order onto a transparent canvas, no restore pending
FreshRender(s, n) ==
    RenderTo([s EXCEPT !.canvas = [c \in DOMAIN @ |-> <<>>],
                       !.temp = [c \in DOMAIN @ |-> <<>>],
                       !.clrBg = FALSE, !.cFrame = 0, !.rendered = <<>>], n)

\* C17: from every reachable state, setting current_frame = N leaves the canvas
\* equal to the result of rendering frames 0..N in order onto a fully
\* transparent canvas with no restore pending
C17_SeekCanvas ==
    (call.op = "currentFrame" /\ ~helper.reacted)
        => helper.canvas = FreshRender(helper, Clamp(helper, call.arg)).canvas

\* the original frame at position k (from 1) of the sequence of a mode over n frames
OriginalAt(mode, n, k) ==
    IF mode = "backward" THEN n + 1 - k
    ELSE IF mode = "pingpong" /\ k > n THEN 2 * n + 1 - k
    ELSE k

\* C18: the sequence is built from the N frames of the animation: forward is
\* 0..N-1, backward is N-1..0, pingpong is 0..N-1 followed by N-1..0 with
\* length 2N; frames and frame_info are paired at every position
C18_ModeSequence ==
    /\ Len(helper.frames) =
           IF helper.mode = "pingpong" THEN 2 * Len(apng.frames) ELSE Len(apng.frames)
    /\ Len(helper.frameInfo) = Len(helper.frames)
    /\ \A k \in DOMAIN helper.frames :
           /\ helper.frames[k] = apng.frames[OriginalAt(helper.mode, Len(apng.frames), k)]
           /\ helper.frameInfo[k] =
                  apng.frameInfo[OriginalAt(helper.mode, Len(apng.frames), k)]

\* the mode is set to pingpong over three frames: 0,1,2,2,1,0
C18_Witness ==
    /\ call.op = "mode" /\ helper.mode = "pingpong" /\ Len(apng.frames) = 3
    /\ [k \in DOMAIN helper.frames |-> helper.frames[k].id] = <<0, 1, 2, 2, 1, 0>>

\* C19: from every state (playing, paused, ended or never played), stop()
\* leaves running = false and cursor = 0, renders frame 0 once and emits
\* onstop exactly once
C19_StopResets ==
    (call.op = "stop" /\ ~helper.thrown)
        => /\ ~helper.playing
           /\ helper.cFrame = 0
           /\ helper.rendered = <<0>>
           /\ Occurrences(helper.emitted, "stop") = 1

\* C20: after pause() has returned, also when it was called from inside an
\* onframe handler, no scheduled tick takes effect: the cursor, the loop count
\* and the canvas do not change and no callback is invoked
C20_NoTickAfterPause ==
    [][ ( /\ ~helper.playing
          /\ Occurrences(helper.emitted, "pause") > 0
          /\ call'.op = "advance" )
        => ( /\ helper'.cFrame = helper.cFrame
             /\ helper'.loops = helper.loops
             /\ helper'.canvas = helper.canvas
             /\ helper'.emitted = <<>> ) ]_vars

(***************************************************************************)
(* Uninterrupted playback: a freshly constructed helper that counts its    *)
(* iterations (ignoreIterations false, a positive count), play() called    *)
(* once, and then only the browser running the scheduled callbacks, which  *)
(* it does for every callback scheduled.  call also keeps the totals of    *)
(* the frames rendered and of the oniteration and onended callbacks.       *)
(***************************************************************************)
PlaybackOptions == [mode : Modes, iterations : {-1, 1, 2, 3}, ignoreIterations : {FALSE}]

PlaybackInit ==
    /\ buffer = <<>> /\ source = <<>> /\ hasOnerror = FALSE /\ pc = "done"
    /\ thrown = "" /\ me = Me0 /\ frames = 0 /\ img = <<>> /\ warned = FALSE
    /\ callbackCalls = 0 /\ onerrorCalls = 0
    /\ apng \in Animations
    /\ \E opt \in PlaybackOptions :
          /\ ResolvedIterations(apng, opt) > 0
          /\ helper = Construct(apng, opt)
    /\ call = [op |-> "new", arg |-> 0, frames |-> 0, iterations |-> 0, ended |-> 0]

\* the state after a call, the totals kept
Counted(op, s) ==
    /\ helper' = s
    /\ call' = [ op |-> op, arg |-> 0,
                 frames |-> call.frames + Len(s.rendered),
                 iterations |-> call.iterations + Occurrences(s.emitted, "iteration"),
                 ended |-> call.ended + Occurrences(s.emitted, "ended") ]
    /\ UNCHANGED <<parserVars, apng>>

PlayOnce ==
    /\ call.op = "new"
    /\ \E s \in {ApiPlay(Begin(helper, NoHandlers))} : Counted("play", s)

Advances == \E id \in helper.timers :
    \E s \in {Advance(Begin(Fired(helper, id), NoHandlers))} : Counted("advance", s)

PlaybackNext == PlayOnce \/ Advances

PlaybackSpec == PlaybackInit /\ [][PlaybackNext]_vars /\ WF_vars(Advances)

\* the animation has ended after helper.iterations full iterations
PlayedOut ==
    /\ ~helper.playing /\ helper.timers = {}
    /\ call.iterations = helper.iterations
    /\ call.ended = 1
    /\ call.frames = helper.iterations * Len(helper.frames)

\* C21: on a fresh player with ignore_iterations false and iteration count
\* k > 0 over a sequence of length L, play() with no further control calls
\* eventually ends: exactly k oniteration events, onended exactly once right
\* after the k-th, exactly k*L frames rendered, and then running is false
\* with no tick pending
C21_PlayEnds ==
    /\ (call.op = "play") ~> [] PlayedOut
    /\ [] (call.ended > 0 => call.iterations = helper.iterations)
    /\ [] (Occurrences(helper.emitted, "ended") > 0
              => helper.emitted = <<"iteration", "ended">>)

\* two iterations of six frames have been played out
C21_Witness ==
    /\ call.op = "advance" /\ PlayedOut
    /\ helper.iterations = 2 /\ Len(helper.frames) = 6 /\ call.frames = 12

\* C22: a player constructed with iterations < 0 over a non-APNG animation
\* resolves iterations to 0 with ignore_iterations false, so that play()
\* renders one frame and then stops
C22_StillStops ==
    /\ \A opt \in Options :
          (/\ call.op = "new" /\ ~apng.isAPNG /\ opt.iterations < 0
           /\ helper = Construct(apng, opt))
              => (helper.iterations = 0 /\ ~helper.ignoreIterations)
    /\ (/\ call.op = "advance" /\ ~apng.isAPNG /\ helper.iterations = 0
        /\ ~helper.reacted /\ ~helper.thrown)
           => (~helper.playing /\ helper.rendered = <<>>)

\* C23: while commit is false during playback, every scheduler step still
\* advances the cursor and the loop count and still emits oniteration and
\* onended, but leaves the canvas and the restore state unchanged and emits
\* no onframe
C23_Uncommitted ==
    [][ (call'.op = "advance" /\ ~helper.commit)
        => ( /\ helper'.canvas = helper.canvas
             /\ helper'.temp = helper.temp
             /\ helper'.clrBg = helper.clrBg
             /\ Occurrences(helper'.emitted, "frame") = 0
             /\ IF helper.cFrame + 1 >= Len(helper.frames)
                THEN /\ helper'.cFrame = 0
                     /\ helper'.loops = helper.loops + 1
                     /\ Occurrences(helper'.emitted, "iteration") = 1
                     /\ (helper'.loops >= helper.iterations /\ ~helper.ignoreIterations)
                           <=> Occurrences(helper'.emitted, "ended") = 1
                ELSE /\ helper'.cFrame = helper.cFrame + 1
                     /\ helper'.loops = helper.loops
                     /\ helper'.emitted = <<>> ) ]_vars

\* a tick with commit false has wrapped the cursor and ended the animation
C23_Witness ==
    /\ call.op = "advance" /\ ~helper.commit /\ helper.cFrame = 0 /\ helper.loops = 1
    /\ helper.emitted = <<"iteration", "ended">> /\ helper.rendered = <<>>
    /\ Len(helper.frames) > 1

(***************************************************************************)
(* The static utilities of APNG.Helper: retime, setDuration, setDelay and  *)
(* toSpritesheet, called on a parsed animation.  _cd reads the name apng,  *)
(* which is no parameter of it: it is resolved in the global scope, where  *)
(* it is undefined (a ReferenceError), bound to the object the caller      *)
(* passed, or bound to another animation.  Delays are rationals.           *)
(***************************************************************************)
RatMul(a, b) == Rat(a[1] * b[1], a[2] * b[2])

\* a / b for b # 0
RatDiv(a, b) ==
    IF b[1] < 0 THEN Rat(-(a[1] * b[2]), -(a[2] * b[1])) ELSE Rat(a[1] * b[2], a[2] * b[1])

\* apng.duration = fi.reduce(...)
CdDuration(a) == [a EXCEPT !.duration = SumDelays(a.frameInfo)]

\* _cd(fn) on the object g that the global name apng is bound to
Cd(g, fn) ==
    CdDuration([g EXCEPT !.frameInfo =
                   [k \in DOMAIN g.frameInfo |->
                       [g.frameInfo[k] EXCEPT !.delay = fn[g.frameInfo[k].delay]]]])

Bindings == {"undefined", "argument", "other"}

\* the delays a callback of _cd can be handed
DelaysOf(a, other) ==
    {a.frameInfo[k].delay : k \in DOMAIN a.frameInfo}
        \cup {other.frameInfo[k].delay : k \in DOMAIN other.frameInfo}

\* a utility that ends in this._cd(fn), called with the animation a
CdOnGlobal(a, other, binding, fn) ==
    IF binding = "undefined" THEN [apng |-> a, other |-> other, thrown |-> TRUE]
    ELSE IF binding = "argument" THEN [apng |-> Cd(a, fn), other |-> other, thrown |-> FALSE]
    ELSE [apng |-> a, other |-> Cd(other, fn), thrown |-> FALSE]

\* APNG.Helper.retime(apng, timeScale)
RetimeOf(a, other, binding, timeScale) ==
    CdOnGlobal(a, other, binding, [d \in DelaysOf(a, other) |-> RatMul(d, timeScale)])

\* APNG.Helper.setDuration(apng, duration), apng.duration # 0
SetDurationOf(a, other, binding, duration) ==
    CdOnGlobal(a, other, binding,
               [d \in DelaysOf(a, other) |-> RatMul(d, RatDiv(duration, a.duration))])

\* APNG.Helper.setDelay(apng, delay)
SetDelayOf(a, other, binding, delay) ==
    CdOnGlobal(a, other, binding, [d \in DelaysOf(a, other) |-> delay])

\* the options of a helper constructed without options
DefaultOptions == [mode |-> "forward", iterations |-> -1, ignoreIterations |-> TRUE]

\* Math.ceil(a / b) for a >= 0, b > 0
CeilDiv(a, b) == (a + b - 1) \div b

\* toSpritesheet: the size of the sheet
SheetSize(a, maxWidth) ==
    IF a.width * Len(a.frames) > maxWidth
    THEN [ width |-> (maxWidth \div a.width) * a.width,
           height |-> CeilDiv(a.width * Len(a.frames), maxWidth) * a.height ]
    ELSE [ width |-> a.width * Len(a.frames), height |-> a.height ]

\* toSpritesheet: x += apng.width; if ( x >= options.maxWidth ) { x = 0; y += apng.height; }
NextCell(a, maxWidth, x, y) ==
    IF x + a.width >= maxWidth THEN <<0, y + a.height>> ELSE <<x + a.width, y>>

\* toSpritesheet: the loop over the frames, anim the temporary helper
RECURSIVE SheetCells(_, _, _, _, _, _)
SheetCells(a, maxWidth, anim, i, at, cells) ==
    IF i >= Len(a.frames) THEN cells
    ELSE SheetCells(a, maxWidth, SetCurrentFrameOf(Begin(anim, NoHandlers), i), i + 1,
                    NextCell(a, maxWidth, at[1], at[2]),
                    Append(cells, [ x |-> at[1], y |-> at[2],
                                    image |-> SetCurrentFrameOf(Begin(anim, NoHandlers),
                                                                i).canvas ]))

\* APNG.Helper.toSpritesheet(apng, {maxWidth})
ToSpritesheetOf(a, maxWidth) ==
    [ width |-> SheetSize(a, maxWidth).width,
      height |-> SheetSize(a, maxWidth).height,
      cells |-> SheetCells(a, maxWidth, Construct(a, DefaultOptions), 0, <<0, 0>>, <<>>) ]

MaxDuration == 240
MaxDenominator == 2

TimeScales == { <<2, 1>>, <<1, 2>> }
Durations == { RatInt(60), RatInt(120) }
Delays == { RatInt(0), RatInt(16) }
MaxWidths == 1..7

UtilityInit ==
    /\ buffer = <<>> /\ source = <<>> /\ hasOnerror = FALSE /\ pc = "done"
    /\ thrown = "" /\ me = Me0 /\ frames = 0 /\ img = <<>> /\ warned = FALSE
    /\ callbackCalls = 0 /\ onerrorCalls = 0
    /\ apng \in Animations
    /\ helper = <<>>
    /\ call = [op |-> "new"]

\* the state after a utility that ends in _cd: before is the argument as it was
Retimed(op, arg, binding, before, other, r) ==
    /\ RatLeq(r.apng.duration, RatInt(MaxDuration))
    /\ RatLeq(RatInt(-MaxDuration), r.apng.duration)
    /\ RatLeq(r.other.duration, RatInt(MaxDuration))
    /\ RatLeq(RatInt(-MaxDuration), r.other.duration)
    /\ \A k \in DOMAIN r.apng.frameInfo : r.apng.frameInfo[k].delay[2] <= MaxDenominator
    /\ \A k \in DOMAIN r.other.frameInfo : r.other.frameInfo[k].delay[2] <= MaxDenominator
    /\ apng' = r.apng
    /\ call' = [ op |-> op, arg |-> arg, binding |-> binding, before |-> before,
                 otherBefore |-> other, other |-> r.other, thrown |-> r.thrown ]
    /\ UNCHANGED <<parserVars, helper>>

Retime == \E timeScale \in TimeScales, binding \in Bindings, other \in Animations :
    \E r \in {RetimeOf(apng, other, binding, timeScale)} :
        Retimed("retime", timeScale, binding, apng, other, r)

SetDuration == \E duration \in Durations, binding \in Bindings, other \in Animations :
    /\ apng.duration[1] # 0
    /\ \E r \in {SetDurationOf(apng, other, binding, duration)} :
          Retimed("setDuration", duration, binding, apng, other, r)

SetDelay == \E delay \in Delays, binding \in Bindings, other \in Animations :
    \E r \in {SetDelayOf(apng, other, binding, delay)} :
        Retimed("setDelay", delay, binding, apng, other, r)

ToSpritesheet == \E maxWidth \in MaxWidths :
    /\ call' = [ op |-> "toSpritesheet", arg |-> maxWidth,
                 sheet |-> ToSpritesheetOf(apng, maxWidth) ]
    /\ UNCHANGED <<parserVars, apng, helper>>

UtilityNext == Retime \/ SetDuration \/ SetDelay \/ ToSpritesheet

UtilitySpec == UtilityInit /\ [][UtilityNext]_vars

\* the animation a with every delay changed by fn and the duration their sum
WithDelays(a, fn(_)) ==
    [a EXCEPT !.frameInfo = [k \in DOMAIN a.frameInfo |->
                                [a.frameInfo[k] EXCEPT !.delay = fn(a.frameInfo[k].delay)]],
              !.duration = SumDelays([k \in DOMAIN a.frameInfo |->
                                         [delay |-> fn(a.frameInfo[k].delay)]])]

\* C24: retime(animation, k) multiplies the delay of every frame of the
\* animation passed as its argument by k and sets that animation's duration
\* to the sum of the new delays, leaving every other field unchanged;
\* set_uniform_delay likewise acts on the animation it is given
C24_RetimeArgument ==
    /\ call.op = "retime"
          => apng = WithDelays(call.before, LAMBDA d : RatMul(d, call.arg))
    /\ call.op = "setDelay"
          => apng = WithDelays(call.before, LAMBDA d : call.arg)

\* C25: when width*N > W_max the sprite sheet has C = floor(W_max / width)
\* cells per row, output width C*width and output height ceil(N / C)*height;
\* when width*N <= W_max it is a single row of width width*N and height height
C25_SheetSize ==
    (call.op = "toSpritesheet" /\ call.arg >= apng.width)
        => IF apng.width * Len(apng.frames) > call.arg
           THEN /\ call.sheet.width = (call.arg \div apng.width) * apng.width
                /\ call.sheet.height =
                       CeilDiv(Len(apng.frames), call.arg \div apng.width) * apng.height
           ELSE /\ call.sheet.width = apng.width * Len(apng.frames)
                /\ call.sheet.height = apng.height

\* C26: for an animation with exactly one frame, the sprite sheet is a single
\* cell whose width and height equal the full canvas width and height, for
\* every canvas width and every W_max
C26_SingleCell ==
    (call.op = "toSpritesheet" /\ Len(apng.frames) = 1)
        => /\ call.sheet.width = apng.width
           /\ call.sheet.height = apng.height
           /\ Len(call.sheet.cells) = 1
           /\ call.sheet.cells[1].x = 0 /\ call.sheet.cells[1].y = 0

\* the duration getter: return apng.duration
Duration == apng.duration

\* C27: the duration property considers the playback mode: it equals the sum
\* of the delays of the current sequence, in pingpong mode twice the forward
\* duration
C27_DurationOfSequence ==
    (apng.isAPNG /\ call.op \in {"new", "mode"})
        => Duration = SumDelays(helper.frameInfo)

\* the indices of the sequence whose cumulative delay reaches the time
Reaching(infos, time) ==
    {i \in 0..(Len(infos) - 1) : RatLeq(RatInt(time), SumDelays(SubSeq(infos, 1, i + 1)))}

Least(S) == CHOOSE i \in S : \A j \in S : i <= j

\* C28: setting current_time = T seeks to the least index i of the current
\* sequence whose cumulative delay is >= T (frames 0..i are rendered as by
\* current_frame = i); when T exceeds the total of all delays no seek happens
\* and the cursor and the canvas are unchanged
C28_SeekByTime ==
    [][ call'.op = "currentTime"
        => IF Reaching(helper.frameInfo, call'.arg) = {}
           THEN /\ helper'.cFrame = helper.cFrame
                /\ helper'.canvas = helper.canvas
                /\ helper'.rendered = <<>>
           ELSE /\ helper'.rendered =
                      [k \in 1..(Least(Reaching(helper.frameInfo, call'.arg)) + 1) |-> k - 1]
                /\ helper'.canvas =
                      SetCurrentFrameOf(Begin(helper, NoHandlers),
                                        Least(Reaching(helper.frameInfo, call'.arg))).canvas
                /\ helper'.cFrame =
                      SetCurrentFrameOf(Begin(helper, NoHandlers),
                                        Least(Reaching(helper.frameInfo, call'.arg))).cFrame
      ]_vars

\* the time 30 is reached exactly at index 1 of the delays 10, 20, 30
C28_Witness ==
    /\ call.op = "currentTime" /\ call.arg = 30 /\ helper.mode = "forward"
    /\ Len(helper.frames) = 3 /\ helper.rendered = <<0, 1>>

\* a time beyond the total of the delays: nothing is rendered
C28_WitnessBeyond ==
    /\ call.op = "currentTime" /\ call.arg = 200 /\ helper.rendered = <<>>

(***************************************************************************)
(* Claims about the partition of the image data into frames.               *)
(***************************************************************************)
\* the number of image data chunks of the source from its first fcTL on
SourceDataChunks ==
    IF SourceFcTL = <<>> THEN 0
    ELSE Len(SelectIdx(SourceChunks, {IDAT, fdAT}, SourceFcTL[1]))

RECURSIVE PayloadCount(_)
\* the number of IDAT chunks of the frames of a list
PayloadCount(pngs) ==
    IF pngs = <<>> THEN 0
    ELSE Len(FramePayloads(Head(pngs))) + PayloadCount(Tail(pngs))

\* C29: the IDAT payloads of synthesized frame i are, in source order, the
\* data of every IDAT chunk and the data[4..] of every fdAT chunk located
\* between the i-th fcTL and the next fcTL (or the end of file), one output
\* IDAT per source chunk; an IDAT located before the first fcTL appears in
\* no frame
C29_Partition ==
    (pc = "parsed" /\ me.isAPNG) =>
        /\ \A i \in DOMAIN me.frames :
              /\ i <= Len(SourceFcTL)
              /\ FramePayloads(me.frames[i]) = SourceDataAfter(i)
        /\ PayloadCount(me.frames) = SourceDataChunks

\* an IDAT before the first fcTL, and a frame made of the fdAT after it
C29_Witness ==
    /\ pc = "parsed" /\ me.isAPNG /\ Len(me.frames) = 1
    /\ Names(source) = <<IHDR, acTL, IDAT, fcTL, fdAT, IEND>>
    /\ Len(FramePayloads(me.frames[1])) = 1
    /\ Len(FramePayloads(me.frames[1])[1]) = SourceChunks[5].size - 4

\* the fcTL chunks of the source that image data follows
SourceFcTLWithData == {i \in 1..Len(SourceFcTL) : SourceDataAfter(i) # <<>>}

\* C30 as stated: the parts of a frame are pushed into files only if they are
\* non-empty: an fcTL followed by no IDAT/fdAT before the next fcTL (or the
\* end of file) contributes no synthesized frame
C30_NonEmptyOnly ==
    (pc = "parsed" /\ me.isAPNG) => Len(me.frames) = Cardinality(SourceFcTLWithData)

\* C30 amended: the parts of a frame are pushed whether empty or not: every
\* fcTL contributes one entry to files and one synthesized frame, which has
\* no IDAT chunk when no IDAT/fdAT follows its fcTL
C30_EveryFcTLAFrame ==
    (pc = "parsed" /\ me.isAPNG /\ SourceFcTL # <<>>) =>
        /\ Len(me.frames) = Len(SourceFcTL)
        /\ \A i \in DOMAIN me.frames :
              (i \notin SourceFcTLWithData) <=> (Count(ChunksOf(me.frames[i]), IDAT) = 0)

\* two fcTL chunks with no image data between them, then an IDAT
C30_Witness ==
    /\ pc = "parsed" /\ me.isAPNG
    /\ Names(source) = <<IHDR, acTL, fcTL, fcTL, IDAT, IEND>>
    /\ Len(me.frames) = 2
    /\ Count(ChunksOf(me.frames[1]), IDAT) = 0
    /\ Count(ChunksOf(me.frames[2]), IDAT) = 1

(***************************************************************************)
(* makeChunk on its own: a name and a data array are drawn, and the chunk  *)
(* built from them is left in buffer (source holds the data handed in).    *)
(***************************************************************************)
MaxData == 3

DataBytes == {0, 170, 255}

ChunkNames == {IHDR, IDAT, IEND}

ChunkDatas == UNION { [1..n -> DataBytes] : n \in 0..MaxData }

ChunkInit ==
    /\ buffer = <<>> /\ source \in ChunkDatas /\ hasOnerror = FALSE /\ pc = "done"
    /\ thrown = "" /\ me = Me0 /\ frames = 0 /\ img = <<>> /\ warned = FALSE
    /\ callbackCalls = 0 /\ onerrorCalls = 0
    /\ apng = Me0
    /\ helper = <<>>
    /\ call \in [op : {"new"}, name : ChunkNames]

\* makeChunk(name, data)
MakeChunk ==
    /\ call.op = "new"
    /\ buffer' = makeChunk(call.name, source)
    /\ call' = [call EXCEPT !.op = "makeChunk"]
    /\ UNCHANGED <<source, hasOnerror, pc, thrown, me, frames, img, warned,
                   callbackCalls, onerrorCalls, apng, helper>>

ChunkNext == MakeChunk

ChunkSpec == ChunkInit /\ [][ChunkNext]_vars

\* C31: for every chunk built by makeChunk(name, data) the length field is the
\* big-endian data length and the CRC field is the big-endian standard PNG
\* CRC32 of the 4 type bytes followed by the data, the length field excluded;
\* for ("IEND", empty data) it is 0xAE426082, and the chunk is the IEND the
\* demuxer appends
C31_MakeChunkCrc ==
    (call.op = "makeChunk") =>
        /\ Len(buffer) = Len(source) + 12
        /\ Slice(buffer, 0, 4) = BE32(Len(source))
        /\ Slice(buffer, 4, 4) = call.name
        /\ Slice(buffer, 8, Len(source)) = source
        /\ Slice(buffer, 8 + Len(source), 4) = PngCrc32(call.name \o source)
        /\ (call.name = IEND /\ source = <<>>) =>
              /\ Slice(buffer, 8, 4) = <<174, 66, 96, 130>>
              /\ buffer = Uint32Array(IendWords)

\* an IDAT built from data of several bytes
C31_Witness ==
    /\ call.op = "makeChunk" /\ call.name = IDAT
    /\ Len(source) > 1 /\ source[1] # source[2]
    /\ Len(buffer) = Len(source) + 12

(***************************************************************************)
(* The player with callbacks that call back into it, explored one          *)
(* scheduled callback further than PlayerSpec: play, pause, stop and the   *)
(* browser's ticks.                                                        *)
(***************************************************************************)
Reentered(op, s) ==
    /\ Cardinality(s.timers) <= MaxTimers + 1
    /\ helper' = [s EXCEPT !.on = NoHandlers]
    /\ call' = [op |-> op, arg |-> 0]
    /\ UNCHANGED <<parserVars, apng>>

ReentrantPlay == \E on \in Handlers :
    \E s \in {ApiPlay(Begin(helper, on))} : Reentered("play", s)

ReentrantPause == \E on \in Handlers :
    \E s \in {ApiPause(Begin(helper, on))} : Reentered("pause", s)

ReentrantStop == \E on \in Handlers :
    \E s \in {ApiStop(Begin(helper, on))} : Reentered("stop", s)

ReentrantTick == \E on \in Handlers, id \in helper.timers :
    /\ helper.loops < MaxLoops
    /\ \E s \in {Advance(Begin(Fired(helper, id), on))} : Reentered("advance", s)

ReentrantNext == ReentrantPlay \/ ReentrantPause \/ ReentrantStop \/ ReentrantTick

ReentrantSpec == PlayerInit /\ [][ReentrantNext]_vars

\* C32: at most one advance tick is scheduled at any time, so there is never
\* more than one live loop/advance chain, under every interleaving of play,
\* pause, stop and ticks, calls made from inside the handlers included
C32_OneChain == Cardinality(helper.timers) <= 1

\* the frameInfo of the only frame a call has rendered
RenderedInfo(s) == s.frameInfo[s.rendered[1] + 1]

\* C33: if the frame rendered last has dispose = 2, then after the restore
\* step of the next render every canvas pixel inside that frame's region has
\* the value it had immediately before that frame was drawn, for every
\* pre-draw content (transparent or opaque) and every frame raster
C33_DisposeRestores ==
    [][ ( /\ ~helper.clrBg
          /\ ~helper'.thrown
          /\ Len(helper'.rendered) = 1
          /\ RenderedInfo(helper').dispose = 2 )
        => \A c \in Cells :
              InRect(c, RenderedInfo(helper').x, RenderedInfo(helper').y,
                        RenderedInfo(helper').width, RenderedInfo(helper').height)
                  => Restore(helper').canvas[c] = helper.canvas[c] ]_vars

\* C34: in the sprite sheet every frame is blitted into its own cell lying
\* completely inside the sheet (x + width <= sheet width and y + height <=
\* sheet height), no two frames are blitted at the same position, and a row
\* wraps exactly when x reaches the sheet width, also when W_max is not a
\* multiple of the canvas width
C34_CellsInside ==
    (call.op = "toSpritesheet" /\ call.arg >= apng.width) =>
        LET cells == call.sheet.cells
        IN  /\ Len(cells) = Len(apng.frames)
            /\ \A k \in DOMAIN cells :
                  /\ cells[k].x + apng.width <= call.sheet.width
                  /\ cells[k].y + apng.height <= call.sheet.height
            /\ \A j, k \in DOMAIN cells :
                  (j # k) => <<cells[j].x, cells[j].y>> # <<cells[k].x, cells[k].y>>
            /\ \A k \in DOMAIN cells :
                  (k < Len(cells)) =>
                      IF cells[k].x + apng.width >= call.sheet.width
                      THEN cells[k + 1].x = 0 /\ cells[k + 1].y = cells[k].y + apng.height
                      ELSE cells[k + 1].x = cells[k].x + apng.width /\ cells[k + 1].y = cells[k].y

\* C35: every onframe event is emitted after the canvas reflects the frame
\* just rendered, and the current frame the handler reads during the event is
\* the index of that rendered frame, for the events of the playback loop, of
\* the seek by index and of the seek by time alike
C35_FrameEventCursor ==
    (helper.seen # <<>>) =>
        /\ helper.rendered # <<>>
        /\ \A k \in DOMAIN helper.seen :
              helper.seen[k] = helper.rendered[Len(helper.rendered)]

\* C36: after any sequence of construction, mode changes, seeks, commit
\* toggles, play, pause, stop and ticks the cursor satisfies
\* 0 <= cursor < |sequence| whenever control is outside an operation
C36_CursorRange == helper.cFrame >= 0 /\ helper.cFrame < Len(helper.frames)

(***************************************************************************)
(* Replay: a helper that counts its iterations is played, left to run or   *)
(* stopped, and played again.  call keeps the number of play() calls that  *)
(* started a run and the iterations completed in the run in progress.      *)
(***************************************************************************)
MaxRuns == 2

ReplayInit ==
    /\ buffer = <<>> /\ source = <<>> /\ hasOnerror = FALSE /\ pc = "done"
    /\ thrown = "" /\ me = Me0 /\ frames = 0 /\ img = <<>> /\ warned = FALSE
    /\ callbackCalls = 0 /\ onerrorCalls = 0
    /\ apng \in Animations
    /\ \E opt \in PlaybackOptions :
          /\ ResolvedIterations(apng, opt) > 0
          /\ helper = Construct(apng, opt)
    /\ call = [op |-> "new", arg |-> 0, runs |-> 0, iterations |-> 0]

Replayed(op, s, runs, iterations) ==
    /\ helper' = s
    /\ call' = [op |-> op, arg |-> 0, runs |-> runs, iterations |-> iterations]
    /\ UNCHANGED <<parserVars, apng>>

\* play() while the animation is not playing
Replay ==
    /\ ~helper.playing
    /\ call.runs < MaxRuns
    /\ \E s \in {ApiPlay(Begin(helper, NoHandlers))} : Replayed("play", s, call.runs + 1, 0)

ReplayStop ==
    /\ helper.playing
    /\ \E s \in {ApiStop(Begin(helper, NoHandlers))} :
           Replayed("stop", s, call.runs, call.iterations)

ReplayAdvance == \E id \in helper.timers :
    \E s \in {Advance(Begin(Fired(helper, id), NoHandlers))} :
        Replayed("advance", s, call.runs,
                 call.iterations + Occurrences(s.emitted, "iteration"))

ReplayNext == Replay \/ ReplayStop \/ ReplayAdvance

ReplaySpec == ReplayInit /\ [][ReplayNext]_vars

\* C37: with ignore_iterations false and iteration count k > 0, every play()
\* issued after the animation has ended or been stopped plays k full
\* iterations again before onended fires
C37_ReplayFull ==
    [][ (call'.op = "advance" /\ Occurrences(helper'.emitted, "ended") > 0)
            => call'.iterations = helper.iterations ]_vars

\* the raster of the only frame a call has rendered, as one pixel of the canvas
RenderedPixel(s) ==
    << [ id |-> s.frames[s.rendered[1] + 1].id,
         opaque |-> s.frames[s.rendered[1] + 1].opaque ] >>

C39_SourceUntouched ==
    (pc = "parsed" /\ me.isAPNG) =>
        /\ buffer = source
        /\ ParseResult(buffer).me.width = me.width
        /\ ParseResult(buffer).me.height = me.height
        /\ ParseResult(buffer).me.frames = me.frames

====
